---------------------------- MODULE Spec2Model ----------------------------
(***************************************************************************)
(* Feed-finder worker: URL normalizer, target validator (SSRF guard),      *)
(* common-path prober, discovery orchestrator and request handler.         *)
(*                                                                         *)
(* Strings are TLA+ strings; TLC evaluates Len, \o and SubSeq on them, so  *)
(* the string code of the worker (startsWith, includes, regex prefixes,    *)
(* the platform's URL parser) is computed character by character.          *)
(***************************************************************************)
EXTENDS Integers, Sequences, FiniteSets, TLC

(***************************************************************************)
(* JavaScript string primitives.                                           *)
(***************************************************************************)
Ch(s, i) == SubSeq(s, i, i)

StartsWith(s, p) == Len(s) >= Len(p) /\ SubSeq(s, 1, Len(p)) = p

EndsWith(s, p) == Len(s) >= Len(p) /\ SubSeq(s, Len(s) - Len(p) + 1, Len(s)) = p

\* First 1-based index >= from at which p occurs in s, 0 when there is none.
IndexFrom(s, p, from) ==
    LET Hits == {i \in from..(Len(s) - Len(p) + 1) : SubSeq(s, i, i + Len(p) - 1) = p}
    IN  IF Hits = {} THEN 0 ELSE CHOOSE i \in Hits : \A j \in Hits : i <= j

Includes(s, p) == IndexFrom(s, p, 1) # 0

UpperLetters == <<"A","B","C","D","E","F","G","H","I","J","K","L","M",
                  "N","O","P","Q","R","S","T","U","V","W","X","Y","Z">>

LowerLetters == <<"a","b","c","d","e","f","g","h","i","j","k","l","m",
                  "n","o","p","q","r","s","t","u","v","w","x","y","z">>

Digits == <<"0","1","2","3","4","5","6","7","8","9">>

HexDigits == <<"0","1","2","3","4","5","6","7","8","9","a","b","c","d","e","f">>

\* Index of character c in the sequence of characters cs, 0 when absent.
PosIn(cs, c) ==
    IF \E i \in 1..Len(cs) : cs[i] = c THEN CHOOSE i \in 1..Len(cs) : cs[i] = c ELSE 0

IsAlpha(c) == \E i \in 1..26 : c = UpperLetters[i] \/ c = LowerLetters[i]

IsDigit(c) == \E i \in 1..10 : c = Digits[i]

LowerAt(c, p) == IF p # 0 THEN LowerLetters[p] ELSE c

LowerChar(c) == LowerAt(c, PosIn(UpperLetters, c))

\* Value of a hexadecimal digit plus one, 0 for any other character.
HexPos(c) == PosIn(HexDigits, LowerChar(c))

RECURSIVE ToLowerCase(_)
ToLowerCase(s) ==
    IF s = "" THEN "" ELSE LowerChar(Ch(s, 1)) \o ToLowerCase(SubSeq(s, 2, Len(s)))

\* The white space of the modelled alphabet: space and tab.
IsSpace(c) == c = " " \/ c = "\t"

RECURSIVE TrimStart(_)
TrimStart(s) ==
    IF s # "" /\ IsSpace(Ch(s, 1)) THEN TrimStart(SubSeq(s, 2, Len(s))) ELSE s

RECURSIVE TrimEnd(_)
TrimEnd(s) ==
    IF s # "" /\ IsSpace(Ch(s, Len(s))) THEN TrimEnd(SubSeq(s, 1, Len(s) - 1)) ELSE s

Trim(s) == TrimEnd(TrimStart(s))

\* s.split(sep) for a one-character separator: a sequence of strings.
RECURSIVE SplitAt(_, _, _)
SplitAt(s, sep, i) ==
    IF i = 0 THEN <<s>>
    ELSE <<SubSeq(s, 1, i - 1)>>
         \o SplitAt(SubSeq(s, i + 1, Len(s)), sep, IndexFrom(SubSeq(s, i + 1, Len(s)), sep, 1))

Split(s, sep) == SplitAt(s, sep, IndexFrom(s, sep, 1))

RECURSIVE Join(_, _)
Join(parts, sep) ==
    IF Len(parts) = 0 THEN ""
    ELSE IF Len(parts) = 1 THEN parts[1]
    ELSE parts[1] \o sep \o Join(Tail(parts), sep)

\* Decimal text of a natural number.
RECURSIVE NatToString(_)
NatToString(n) ==
    IF n < 10 THEN Digits[n + 1] ELSE NatToString(n \div 10) \o Digits[(n % 10) + 1]

\* Lowercase hexadecimal text of a natural number, without leading zeros.
RECURSIVE NatToHex(_)
NatToHex(n) ==
    IF n < 16 THEN HexDigits[n + 1] ELSE NatToHex(n \div 16) \o HexDigits[(n % 16) + 1]

(***************************************************************************)
(* The platform's URL parser, `new URL(input)` and `new URL(input, base)`, *)
(* following the WHATWG URL standard.  The model is exact for inputs over  *)
(* ASCII letters, digits and the characters  : / . [ ] - + space tab  ,    *)
(* without credentials, query, fragment, percent escapes, backslashes,     *)
(* IPv4-in-IPv6 tails and Windows drive letters; every input set of this   *)
(* module stays inside that language.  Each parser state is an operator    *)
(* that hands what it computed to the next one as arguments.               *)
(***************************************************************************)
ParseFailure == [ok |-> FALSE]

SpecialSchemes == {"http", "https", "ftp", "ws", "wss", "file"}

DefaultPort(scheme) ==
    CASE scheme = "http"  -> "80"
      [] scheme = "https" -> "443"
      [] scheme = "ftp"   -> "21"
      [] scheme = "ws"    -> "80"
      [] scheme = "wss"   -> "443"
      [] OTHER            -> ""

\* Forbidden host code points that the modelled alphabet can spell.
ForbiddenHostChars == {" ", "\t", "/", ":", "[", "]"}

RECURSIVE RemoveTabs(_)
RemoveTabs(s) ==
    IF s = "" THEN ""
    ELSE (IF Ch(s, 1) = "\t" THEN "" ELSE Ch(s, 1)) \o RemoveTabs(SubSeq(s, 2, Len(s)))

IsSchemeChar(c) == IsAlpha(c) \/ IsDigit(c) \/ c \in {"+", "-", "."}

\* Index of the colon ending the scheme of s, 0 when s starts with no scheme.
SchemeEndAt(s, i) ==
    IF i >= 2 /\ IsAlpha(Ch(s, 1)) /\ \A j \in 2..(i - 1) : IsSchemeChar(Ch(s, j))
    THEN i ELSE 0

SchemeEnd(s) == SchemeEndAt(s, IndexFrom(s, ":", 1))

(* IPv4 number parser.  A number is kept as two 16-bit halves and an       *)
(* overflow flag, so that values up to and beyond 2^32 are exact.          *)
ZeroNum == [hi |-> 0, lo |-> 0, ovf |-> FALSE]

NumOf(ovf, h, l) ==
    [lo |-> l % 65536, hi |-> (h + (l \div 65536)) % 65536,
     ovf |-> ovf \/ (h + (l \div 65536)) >= 65536]

MulAdd(n, radix, d) == NumOf(n.ovf, n.hi * radix, n.lo * radix + d)

\* The four octets of a number, most significant first.
Octets(n) == <<n.hi \div 256, n.hi % 256, n.lo \div 256, n.lo % 256>>

RECURSIVE DigitsValue(_, _, _)
DigitsValue(s, radix, acc) ==
    IF s = "" THEN acc
    ELSE DigitsValue(SubSeq(s, 2, Len(s)), radix, MulAdd(acc, radix, HexPos(Ch(s, 1)) - 1))

IsRadixDigit(p, radix) == p # 0 /\ p <= radix

IsRadixDigits(s, radix) == \A i \in 1..Len(s) : IsRadixDigit(HexPos(Ch(s, i)), radix)

NumRadix(part) ==
    IF Len(part) >= 2 /\ SubSeq(part, 1, 2) \in {"0x", "0X"} THEN 16
    ELSE IF Len(part) >= 2 /\ Ch(part, 1) = "0" THEN 8
    ELSE 10

NumBody(part, radix) ==
    IF radix = 16 THEN SubSeq(part, 3, Len(part))
    ELSE IF radix = 8 THEN SubSeq(part, 2, Len(part))
    ELSE part

ParseRadix(body, radix) ==
    IF IsRadixDigits(body, radix)
    THEN [ok |-> TRUE, num |-> DigitsValue(body, radix, ZeroNum)]
    ELSE ParseFailure

ParseIPv4Number(part) ==
    IF part = "" THEN ParseFailure ELSE ParseRadix(NumBody(part, NumRadix(part)), NumRadix(part))

\* The parts of a dotted host, a trailing empty part removed.
DropEmptyLast(parts) ==
    IF parts[Len(parts)] = "" /\ Len(parts) > 1 THEN SubSeq(parts, 1, Len(parts) - 1) ELSE parts

DottedParts(host) == DropEmptyLast(Split(host, "."))

\* Ends-in-a-number checker, on the last part of the host.
LastIsNumber(last) ==
    \/ last # "" /\ \A i \in 1..Len(last) : IsDigit(Ch(last, i))
    \/ ParseIPv4Number(last).ok

\* IPv4 parser on the parsed parts, and the IPv4 serializer.
IPv4FromNums(nums, n) ==
    IF n > 4 \/ \E i \in 1..n : ~nums[i].ok THEN ParseFailure
    ELSE IF \E i \in 1..(n - 1) : nums[i].num.ovf \/ nums[i].num.hi # 0 \/ nums[i].num.lo > 255
         THEN ParseFailure
    ELSE IF nums[n].num.ovf \/ \E k \in 1..(n - 1) : Octets(nums[n].num)[k] # 0
         THEN ParseFailure
    ELSE [ok |-> TRUE,
          host |-> Join([k \in 1..4 |->
                           NatToString(IF k < n THEN nums[k].num.lo
                                       ELSE Octets(nums[n].num)[k])], ".")]

NumsOf(parts) == [i \in 1..Len(parts) |-> ParseIPv4Number(parts[i])]

ParseIPv4Parts(parts) == IPv4FromNums(NumsOf(parts), Len(parts))

(* IPv6 parser: the eight 16-bit pieces of the address.                    *)
\* Number of hexadecimal digits of s at position p, at most four.
HexRun(s, p) ==
    LET Stop == {q \in p..(p + 4) : q = p + 4 \/ q > Len(s) \/ HexPos(Ch(s, q)) = 0}
    IN  (CHOOSE q \in Stop : \A r \in Stop : q <= r) - p

RECURSIVE HexValue(_, _)
HexValue(s, acc) ==
    IF s = "" THEN acc
    ELSE HexValue(SubSeq(s, 2, Len(s)), acc * 16 + HexPos(Ch(s, 1)) - 1)

RECURSIVE IPv6Loop(_, _, _, _, _)
RECURSIVE IPv6Piece(_, _, _, _, _, _)
IPv6Loop(s, p, idx, compress, pieces) ==
    IF p > Len(s) THEN [ok |-> TRUE, idx |-> idx, compress |-> compress, pieces |-> pieces]
    ELSE IF idx = 8 THEN ParseFailure
    ELSE IF Ch(s, p) = ":"
         THEN IF compress # -1 THEN ParseFailure
              ELSE IPv6Loop(s, p + 1, idx + 1, idx + 1, pieces)
    ELSE IPv6Piece(s, p, p + HexRun(s, p), idx, compress, pieces)

\* One piece: the hexadecimal digits s[p..q-1], then a colon or the end.
IPv6Piece(s, p, q, idx, compress, pieces) ==
    IF q = p THEN ParseFailure
    ELSE IF q <= Len(s) /\ (Ch(s, q) # ":" \/ q = Len(s)) THEN ParseFailure
    ELSE IPv6Loop(s, IF q <= Len(s) THEN q + 1 ELSE q, idx + 1, compress,
                  [pieces EXCEPT ![idx + 1] = HexValue(SubSeq(s, p, q - 1), 0)])

\* The pieces after a "::" move to the end of the address.
IPv6Finish(start) ==
    IF ~start.ok THEN ParseFailure
    ELSE IF start.compress = -1
         THEN (IF start.idx = 8 THEN [ok |-> TRUE, pieces |-> start.pieces] ELSE ParseFailure)
    ELSE [ok |-> TRUE,
          pieces |-> [i \in 1..8 |->
              IF i <= start.compress THEN start.pieces[i]
              ELSE IF i > 8 - (start.idx - start.compress)
                   THEN start.pieces[i - 8 + start.idx]
              ELSE 0]]

IPv6Start(s, dbl) ==
    IPv6Loop(s, IF dbl THEN 3 ELSE 1, IF dbl THEN 1 ELSE 0, IF dbl THEN 1 ELSE -1,
             [i \in 1..8 |-> 0])

ParseIPv6(s) ==
    IF StartsWith(s, ":") /\ ~StartsWith(s, "::") THEN ParseFailure
    ELSE IPv6Finish(IPv6Start(s, StartsWith(s, "::")))

\* IPv6 serializer: the first longest run of two or more zero pieces is "::".
ZeroRun(pieces, a) == Cardinality({b \in a..8 : \A k \in a..b : pieces[k] = 0})

HexPieces(pieces, from, to) ==
    Join([k \in 1..(to - from + 1) |-> NatToHex(pieces[from + k - 1])], ":")

SerializeCompressed(pieces, best) ==
    IF best = {} THEN HexPieces(pieces, 1, 8)
    ELSE LET a == CHOOSE x \in best : \A y \in best : x <= y
         IN  HexPieces(pieces, 1, a - 1) \o "::" \o HexPieces(pieces, a + ZeroRun(pieces, a), 8)

SerializeIPv6(pieces) ==
    SerializeCompressed(pieces,
        {a \in 1..8 : ZeroRun(pieces, a) >= 2
                      /\ \A b \in 1..8 : ZeroRun(pieces, b) <= ZeroRun(pieces, a)})

(* Host parser.                                                            *)
IPv6Host(v6) ==
    IF v6.ok THEN [ok |-> TRUE, host |-> "[" \o SerializeIPv6(v6.pieces) \o "]"]
    ELSE ParseFailure

DomainHost(asciiDomain, parts) ==
    IF asciiDomain = "" THEN ParseFailure
    ELSE IF LastIsNumber(parts[Len(parts)]) THEN ParseIPv4Parts(parts)
    ELSE [ok |-> TRUE, host |-> asciiDomain]

ParseDomain(asciiDomain) == DomainHost(asciiDomain, DottedParts(asciiDomain))

ParseHost(input, isOpaque) ==
    IF StartsWith(input, "[")
    THEN IF ~EndsWith(input, "]") THEN ParseFailure
         ELSE IPv6Host(ParseIPv6(SubSeq(input, 2, Len(input) - 1)))
    ELSE IF \E i \in 1..Len(input) : Ch(input, i) \in ForbiddenHostChars THEN ParseFailure
    ELSE IF isOpaque THEN [ok |-> TRUE, host |-> input]
    ELSE ParseDomain(ToLowerCase(input))

(* Path state: dot segments are resolved, a space is percent-encoded.       *)
RECURSIVE EncodePath(_)
EncodePath(s) ==
    IF s = "" THEN ""
    ELSE (IF Ch(s, 1) = " " THEN "%20" ELSE Ch(s, 1)) \o EncodePath(SubSeq(s, 2, Len(s)))

ShortenPath(path) == IF Len(path) = 0 THEN path ELSE SubSeq(path, 1, Len(path) - 1)

\* The path after segment seg: `slot` is <<"">> at the last segment, else <<>>.
PathStep(path, seg, slot) ==
    IF seg = ".." THEN ShortenPath(path) \o slot
    ELSE IF seg = "." THEN path \o slot
    ELSE Append(path, EncodePath(seg))

RECURSIVE PathLoop(_, _, _)
PathLoop(path, segs, i) ==
    IF i > Len(segs) THEN path
    ELSE PathLoop(PathStep(path, segs[i], IF i = Len(segs) THEN <<"">> ELSE <<>>), segs, i + 1)

\* Path start state and path state on the text that follows the authority
\* (or the scheme), continuing from the segments in `path`.
ParsePath(path, text, special) ==
    IF text = "" /\ ~special THEN path
    ELSE PathLoop(path, Split(IF StartsWith(text, "/") THEN SubSeq(text, 2, Len(text)) ELSE text,
                              "/"), 1)

\* Index of the first colon of an authority that is not inside brackets.
OutsideBrackets(authority, i) ==
    LET prev == {j \in 1..(i - 1) : Ch(authority, j) \in {"[", "]"}}
    IN  prev = {} \/ Ch(authority, CHOOSE j \in prev : \A k \in prev : k <= j) = "]"

PortColon(authority) ==
    LET Cols == {i \in 1..Len(authority) : Ch(authority, i) = ":" /\ OutsideBrackets(authority, i)}
    IN  IF Cols = {} THEN 0 ELSE CHOOSE i \in Cols : \A j \in Cols : i <= j

RECURSIVE PortValue(_, _)
PortValue(s, acc) ==
    IF s = "" THEN acc
    ELSE PortValue(SubSeq(s, 2, Len(s)),
                   IF acc > 65535 THEN acc ELSE acc * 10 + PosIn(Digits, Ch(s, 1)) - 1)

\* Port state: the port is null ("") when absent or the scheme's default.
PortOf(scheme, portText, value) ==
    IF portText = "" \/ NatToString(value) = DefaultPort(scheme) THEN "" ELSE NatToString(value)

\* The URL record once host and port are parsed; `rest` is the path text.
AuthorityUrl(scheme, host, portText, value, rest) ==
    IF ~host.ok \/ value > 65535 THEN ParseFailure
    ELSE [ok |-> TRUE, scheme |-> scheme, hasHost |-> TRUE, host |-> host.host,
          port |-> PortOf(scheme, portText, value), opaque |-> FALSE,
          path |-> ParsePath(<<>>, rest, scheme \in SpecialSchemes)]

\* Host state and port state on the host text and the port text.
HostAndPort(scheme, hostText, portText, hasColon, rest) ==
    IF hostText = "" /\ (hasColon \/ scheme \in SpecialSchemes) THEN ParseFailure
    ELSE IF \E i \in 1..Len(portText) : ~IsDigit(Ch(portText, i)) THEN ParseFailure
    ELSE AuthorityUrl(scheme, ParseHost(hostText, scheme \notin SpecialSchemes),
                      portText, PortValue(portText, 0), rest)

SplitAuthority(scheme, authority, colon, rest) ==
    HostAndPort(scheme,
                IF colon = 0 THEN authority ELSE SubSeq(authority, 1, colon - 1),
                IF colon = 0 THEN "" ELSE SubSeq(authority, colon + 1, Len(authority)),
                colon # 0, rest)

AuthorityAt(scheme, authority, rest) ==
    SplitAuthority(scheme, authority, PortColon(authority), rest)

\* Authority state on the text after the slashes: it ends at the first "/".
AuthorityUpTo(scheme, text, slash) ==
    AuthorityAt(scheme,
                IF slash = 0 THEN text ELSE SubSeq(text, 1, slash - 1),
                IF slash = 0 THEN "" ELSE SubSeq(text, slash, Len(text)))

ParseAuthority(scheme, text) == AuthorityUpTo(scheme, text, IndexFrom(text, "/", 1))

RECURSIVE SkipSlashes(_)
SkipSlashes(s) == IF StartsWith(s, "/") THEN SkipSlashes(SubSeq(s, 2, Len(s))) ELSE s

\* The state the parser is in once the scheme is read, with the text it
\* continues on: "fail", "authority", "file", "abspath", "relpath", "same",
\* "path" (a path without authority) or "opaque".
RelativeRoute(base, text) ==
    IF StartsWith(text, "//")
    THEN [state |-> "authority", scheme |-> base.scheme,
          text |-> IF base.scheme \in SpecialSchemes THEN SkipSlashes(text)
                   ELSE SubSeq(text, 3, Len(text))]
    ELSE [state |-> IF StartsWith(text, "/") THEN "abspath"
                    ELSE IF text = "" THEN "same" ELSE "relpath",
          scheme |-> base.scheme, text |-> text]

SchemeRoute(scheme, rest, base, hasBase) ==
    IF scheme = "file" THEN [state |-> "file", scheme |-> scheme, text |-> rest]
    ELSE IF scheme \in SpecialSchemes
         THEN IF hasBase /\ base.scheme = scheme /\ ~StartsWith(rest, "//")
              THEN RelativeRoute(base, rest)
              ELSE [state |-> "authority", scheme |-> scheme, text |-> SkipSlashes(rest)]
    ELSE IF StartsWith(rest, "//")
         THEN [state |-> "authority", scheme |-> scheme, text |-> SubSeq(rest, 3, Len(rest))]
    ELSE [state |-> IF StartsWith(rest, "/") THEN "path" ELSE "opaque",
          scheme |-> scheme, text |-> rest]

Route(s, colon, base, hasBase) ==
    IF colon = 0
    THEN (IF ~hasBase \/ base.opaque \/ base.scheme = "file"
          THEN [state |-> "fail", scheme |-> "", text |-> s]
          ELSE RelativeRoute(base, s))
    ELSE SchemeRoute(ToLowerCase(SubSeq(s, 1, colon - 1)), SubSeq(s, colon + 1, Len(s)),
                     base, hasBase)

\* file state, file slash state and file host state (no base).
FileUrl(host, rest) ==
    IF ~host.ok THEN ParseFailure
    ELSE [ok |-> TRUE, scheme |-> "file", hasHost |-> TRUE,
          host |-> IF host.host = "localhost" THEN "" ELSE host.host,
          port |-> "", opaque |-> FALSE, path |-> ParsePath(<<>>, rest, TRUE)]

FileHostAt(after, slash) ==
    FileUrl(IF slash = 1 \/ after = "" THEN [ok |-> TRUE, host |-> ""]
            ELSE ParseHost(IF slash = 0 THEN after ELSE SubSeq(after, 1, slash - 1), FALSE),
            IF slash = 0 THEN "" ELSE SubSeq(after, slash, Len(after)))

ParseFile(text) ==
    IF StartsWith(text, "//")
    THEN FileHostAt(SubSeq(text, 3, Len(text)), IndexFrom(SubSeq(text, 3, Len(text)), "/", 1))
    ELSE FileUrl([ok |-> TRUE, host |-> ""], text)

PathUrl(scheme, opaque, path) ==
    [ok |-> TRUE, scheme |-> scheme, hasHost |-> FALSE, host |-> "", port |-> "",
     opaque |-> opaque, path |-> path]

\* The parser continues in the routed state.
ParseRouted(route, base) ==
    CASE route.state = "fail"      -> ParseFailure
      [] route.state = "authority" -> ParseAuthority(route.scheme, route.text)
      [] route.state = "file"      -> ParseFile(route.text)
      [] route.state = "same"      -> base
      [] route.state = "abspath"   ->
            [base EXCEPT !.path = ParsePath(<<>>, route.text, route.scheme \in SpecialSchemes)]
      [] route.state = "relpath"   ->
            [base EXCEPT !.path = PathLoop(ShortenPath(base.path), Split(route.text, "/"), 1)]
      [] route.state = "path"      ->
            PathUrl(route.scheme, FALSE, ParsePath(<<>>, route.text, FALSE))
      [] route.state = "opaque"    -> PathUrl(route.scheme, TRUE, <<route.text>>)

ParseStripped(s, base, hasBase) == ParseRouted(Route(s, SchemeEnd(s), base, hasBase), base)

\* The basic URL parser; `base` is a parsed URL when hasBase holds.
BasicParse(input, base, hasBase) == ParseStripped(RemoveTabs(Trim(input)), base, hasBase)

\* new URL(input)
NewURL(input) == BasicParse(input, ParseFailure, FALSE)

\* new URL(input, base)
ParseOnBase(input, base) == IF base.ok THEN BasicParse(input, base, TRUE) ELSE ParseFailure

NewURLWithBase(input, base) == ParseOnBase(input, NewURL(base))

RECURSIVE SerializePath(_)
SerializePath(path) ==
    IF Len(path) = 0 THEN "" ELSE "/" \o path[1] \o SerializePath(Tail(path))

\* The getters of a URL object.
Pathname(u) == IF u.opaque THEN u.path[1] ELSE SerializePath(u.path)

Protocol(u) == u.scheme \o ":"

Hostname(u) == u.host

Port(u) == u.port

Href(u) ==
    u.scheme \o ":"
    \o (IF u.hasHost THEN "//" \o u.host \o (IF u.port = "" THEN "" ELSE ":" \o u.port)
        ELSE IF ~u.opaque /\ Len(u.path) > 1 /\ u.path[1] = "" THEN "/." ELSE "")
    \o Pathname(u)

(***************************************************************************)
(* Result values (neverthrow): ok(value) and err(error).                   *)
(***************************************************************************)
Ok(v) == [ok |-> TRUE, value |-> v]

Err(t, m) == [ok |-> FALSE, error |-> [type |-> t, message |-> m]]

IsOk(r) == r.ok

IsErr(r) == ~r.ok

(***************************************************************************)
(* worker/validation/url.ts                                                *)
(***************************************************************************)
MsgInvalidUrl == "Invalid URL format"

MsgProtocol == "Only HTTP/HTTPS protocols are supported"

MsgLocalhost == "Access to localhost is not permitted"

MsgPrivate == "Access to private IP addresses is not permitted"

MsgPort == "Access to this port is not permitted"

createUrlResult(u) == IF u.ok THEN Ok(u) ELSE Err("INVALID_URL_FORMAT", MsgInvalidUrl)

safeCreateUrl(url) == createUrlResult(NewURL(url))

isLoopbackHost(hostname) ==
    \/ hostname = "localhost"
    \/ StartsWith(hostname, "127.")
    \/ hostname = "::1"
    \/ hostname = "[::1]"
    \/ hostname = "0:0:0:0:0:0:0:1"
    \/ hostname = "0000:0000:0000:0000:0000:0000:0000:0001"

\* /^172\.(1[6-9]|2[0-9]|3[0-1])\./
Matches172(hostname) ==
    /\ StartsWith(hostname, "172.")
    /\ Len(hostname) >= 7
    /\ Ch(hostname, 7) = "."
    /\ \/ Ch(hostname, 5) = "1" /\ Ch(hostname, 6) \in {"6", "7", "8", "9"}
       \/ Ch(hostname, 5) = "2" /\ IsDigit(Ch(hostname, 6))
       \/ Ch(hostname, 5) = "3" /\ Ch(hostname, 6) \in {"0", "1"}

\* /^\[fc00:/
MatchesUniqueLocal(hostname) == StartsWith(hostname, "[fc00:")

\* privateRanges without the link-local entry /^169\.254\./.
privateRangesNoLinkLocal(hostname) ==
    \/ StartsWith(hostname, "10.")
    \/ Matches172(hostname)
    \/ StartsWith(hostname, "192.168.")
    \/ MatchesUniqueLocal(hostname)

privateRanges(hostname) ==
    \/ StartsWith(hostname, "10.")
    \/ Matches172(hostname)
    \/ StartsWith(hostname, "192.168.")
    \/ StartsWith(hostname, "169.254.")
    \/ MatchesUniqueLocal(hostname)

AllowedPorts == {"80", "443", "8080", "8443"}

\* The port test without the `port &&` guard for an absent port.
isPortAllowedNoGuard(port) == port \in AllowedPorts

isPortAllowed(port) == port = "" \/ port \in AllowedPorts

\* The checks of the andThen callback, on the lowercased hostname.
validateHost(parsedUrl, hostname) ==
    IF Protocol(parsedUrl) \notin {"http:", "https:"}
    THEN Err("URL_NOT_PERMITTED", MsgProtocol)
    ELSE IF isLoopbackHost(hostname) THEN Err("URL_NOT_PERMITTED", MsgLocalhost)
    ELSE IF privateRanges(hostname) THEN Err("URL_NOT_PERMITTED", MsgPrivate)
    ELSE IF ~isPortAllowed(Port(parsedUrl)) THEN Err("URL_NOT_PERMITTED", MsgPort)
    ELSE Ok(parsedUrl)

validateParsedUrl(parsedUrl) == validateHost(parsedUrl, ToLowerCase(Hostname(parsedUrl)))

\* Result.andThen
validateCreated(created) == IF IsOk(created) THEN validateParsedUrl(created.value) ELSE created

validateTargetUrl(url) == validateCreated(safeCreateUrl(url))

(***************************************************************************)
(* worker/validation/request.ts                                            *)
(*                                                                         *)
(* A JSON body is [t |-> "null" | "number" | "string" | "array"] or        *)
(* [t |-> "object", url |-> v] with v = <<>> (no url member) or <<j>>, j a *)
(* JSON value [t |-> "string", s |-> text] or of another type.             *)
(***************************************************************************)
parseRequestBody(body) ==
    IF body.t \notin {"object", "array"}
    THEN Err("INVALID_REQUEST_BODY", "Invalid request body")
    ELSE IF \/ body.t = "array"
            \/ body.url = <<>>
            \/ body.url[1].t # "string"
            \/ Trim(body.url[1].s) = ""
         THEN Err("MISSING_URL", "URL is required")
    ELSE Ok(body.url[1].s)

\* The prefix added whatever the input begins with.
normalizedTextAlways(url) == "https://" \o url

normalizedText(url) == IF StartsWith(url, "http") THEN url ELSE "https://" \o url

\* safeCreateUrl(normalizedUrl).map(() => normalizedUrl).mapErr(...)
normalizedResult(normalizedUrl, created) ==
    IF IsOk(created) THEN Ok(normalizedUrl) ELSE Err("INVALID_URL_FORMAT", MsgInvalidUrl)

\* normalizeUrl without the check for truncated forms (http:/, https:/, ...://).
normalizeUrlNoTruncated(url) ==
    IF url = "" \/ Trim(url) = "" THEN Err("INVALID_URL_FORMAT", MsgInvalidUrl)
    ELSE IF Includes(url, "://") /\ ~StartsWith(url, "http://") /\ ~StartsWith(url, "https://")
         THEN Err("INVALID_URL_FORMAT", MsgInvalidUrl)
    ELSE normalizedResult(normalizedText(url), safeCreateUrl(normalizedText(url)))

normalizeUrl(url) ==
    IF url = "" \/ Trim(url) = "" THEN Err("INVALID_URL_FORMAT", MsgInvalidUrl)
    ELSE IF Includes(url, "://") /\ ~StartsWith(url, "http://") /\ ~StartsWith(url, "https://")
         THEN Err("INVALID_URL_FORMAT", MsgInvalidUrl)
    ELSE IF url = "http:/" \/ url = "https:/" \/ EndsWith(url, "://")
         THEN Err("INVALID_URL_FORMAT", MsgInvalidUrl)
    ELSE normalizedResult(normalizedText(url), safeCreateUrl(normalizedText(url)))

(***************************************************************************)
(* worker/net/fetch.ts                                                     *)
(*                                                                         *)
(* What the underlying fetch does with a request is an outcome:            *)
(*   [k |-> "response", status |-> n, contentType |-> <<>> or <<text>>,    *)
(*    body |-> ...]            the promise resolves with a Response        *)
(*   [k |-> "abort"]           the timer fired and the request was aborted *)
(*   [k |-> "error", message |-> text]   the promise rejects with an Error *)
(*   [k |-> "thrown"]          it rejects with a value that is no Error    *)
(***************************************************************************)
ResponseOk(res) == res.status \in 200..299

USER_AGENT == "FeedFinder/1.0"

\* An object literal is the sequence of its properties, each name once.
\* Setting a property replaces the value of a name that is present and adds
\* the property at the end otherwise.
HasProperty(obj, name) == \E i \in 1..Len(obj) : obj[i].name = name

SetProperty(obj, p) ==
    IF HasProperty(obj, p.name)
    THEN [i \in 1..Len(obj) |-> IF obj[i].name = p.name THEN p ELSE obj[i]]
    ELSE Append(obj, p)

\* { ...target, ...source }
RECURSIVE SpreadInto(_, _)
SpreadInto(target, source) ==
    IF source = <<>> THEN target
    ELSE SpreadInto(SetProperty(target, Head(source)), Tail(source))

\* The headers of an options value; an absent headers property spreads to
\* nothing.
optionsHeaders(options) == IF options.headers = <<>> THEN <<>> ELSE options.headers[1]

\* The second argument of fetch: the caller's options with the signal of
\* the controller and the merged headers written over them.
fetchInit(options, signal) ==
    [method |-> options.method,
     body |-> options.body,
     signal |-> <<signal>>,
     headers |-> <<SpreadInto(<<[name |-> "User-Agent", value |-> USER_AGENT]>>,
                              optionsHeaders(options))>>]

safeFetchAnyStatus(url, outcome) ==
    CASE outcome.k = "abort" -> Err("TIMEOUT_ERROR", "Request timeout for " \o url)
      [] outcome.k = "error" -> Err("NETWORK_ERROR", "Network error: " \o outcome.message)
      [] outcome.k = "thrown" -> Err("NETWORK_ERROR", "Unknown network error")
      [] outcome.k = "response" -> Ok(outcome)

safeFetch(url, outcome) ==
    CASE outcome.k = "abort" -> Err("TIMEOUT_ERROR", "Request timeout for " \o url)
      [] outcome.k = "error" -> Err("NETWORK_ERROR", "Network error: " \o outcome.message)
      [] outcome.k = "thrown" -> Err("NETWORK_ERROR", "Unknown network error")
      [] outcome.k = "response" ->
            IF ~ResponseOk(outcome)
            THEN [ok |-> FALSE,
                  error |-> [type |-> "FETCH_FAILED",
                             message |-> "HTTP " \o NatToString(outcome.status),
                             status |-> outcome.status]]
            ELSE Ok(outcome)

(***************************************************************************)
(* worker/discovery/html.ts                                                *)
(*                                                                         *)
(* A document is the sequence of its link elements in document order; an   *)
(* element is a record of its attributes rel, type, href and title, each   *)
(* <<>> when the attribute is absent and <<text>> when it is present.      *)
(***************************************************************************)
DEFAULT_FEED_TITLE == "RSS/Atom feed"

SUPPORTED_FEED_TYPES ==
    <<"application/rss+xml", "application/atom+xml", "application/rdf+xml", "text/xml",
      "application/xml">>

RECURSIVE Flatten(_)
Flatten(seqs) == IF seqs = <<>> THEN <<>> ELSE Head(seqs) \o Flatten(Tail(seqs))

extractFeedTypeTitle(type) ==
    IF Includes(ToLowerCase(type), "rss") THEN "RSS"
    ELSE IF Includes(ToLowerCase(type), "atom") THEN "Atom"
    ELSE "RSS"

\* rel.split(/\s+/)
SplitWhitespace(s) ==
    Split(Join([i \in 1..Len(s) |-> IF IsSpace(Ch(s, i)) THEN " " ELSE Ch(s, i)], ""), " ")

relHasAlternateExact(rel) == rel = "alternate"

relHasAlternate(rel) ==
    \E i \in 1..Len(SplitWhitespace(rel)) : ToLowerCase(SplitWhitespace(rel)[i]) = "alternate"

\* type.toLowerCase().split(";")[0].trim()
mimeOf(type) == Trim(Split(ToLowerCase(type), ";")[1])

isSupportedType(type) == \E i \in 1..Len(SUPPORTED_FEED_TYPES) : SUPPORTED_FEED_TYPES[i] = mimeOf(type)

isFeedLink(link) ==
    /\ link.rel # <<>>
    /\ relHasAlternate(link.rel[1])
    /\ link.type # <<>> /\ link.type[1] # ""
    /\ link.href # <<>> /\ link.href[1] # ""
    /\ isSupportedType(link.type[1])

\* title || DEFAULT_FEED_TITLE
linkTitle(link) == IF link.title = <<>> \/ link.title[1] = "" THEN DEFAULT_FEED_TITLE ELSE link.title[1]

\* The body of the inner try: nothing is pushed when new URL throws.
linkFeed(link, feedUrl) ==
    IF feedUrl.ok
    THEN <<[title |-> linkTitle(link), url |-> Href(feedUrl),
            type |-> extractFeedTypeTitle(link.type[1]), discoveryMethod |-> "meta-tag"]>>
    ELSE <<>>

linkFeeds(link, base) ==
    IF isFeedLink(link) THEN linkFeed(link, NewURLWithBase(link.href[1], base)) ELSE <<>>

findMetaFeeds(document, base) ==
    Flatten([i \in 1..Len(document) |-> linkFeeds(document[i], base)])

(***************************************************************************)
(* worker/discovery/html.ts: the scan of the text for <link, used when the *)
(* parser fails.  Positions are 1-based, 0 stands for indexOf's -1.        *)
(***************************************************************************)
MAX_LINK_TAG_LENGTH == 1000

\* String.prototype.toLowerCase, by halves.
RECURSIVE LowerText(_)
LowerText(s) ==
    IF Len(s) <= 1 THEN LowerChar(s)
    ELSE LowerText(SubSeq(s, 1, Len(s) \div 2)) \o LowerText(SubSeq(s, Len(s) \div 2 + 1, Len(s)))

IsQuote(c) == c = "\"" \/ c = "'"

\* The while loops of extractAttributeValue: the first position from i on
\* that holds neither a space nor a tab, Len(tag) + 1 when there is none.
SkipBlanks(tag, i) ==
    CHOOSE j \in i..(Len(tag) + 1) :
        /\ j = Len(tag) + 1 \/ ~IsSpace(Ch(tag, j))
        /\ \A k \in i..(j - 1) : IsSpace(Ch(tag, k))

\* From the quote at position q: the value up to the next quote of the
\* same kind, null when q holds no quote or the quote is not closed.
quotedValue(tag, q) ==
    IF q > Len(tag) \/ ~IsQuote(Ch(tag, q)) THEN <<>>
    ELSE IF IndexFrom(tag, Ch(tag, q), q + 1) = 0 THEN <<>>
    ELSE <<SubSeq(tag, q + 1, IndexFrom(tag, Ch(tag, q), q + 1) - 1)>>

\* After the attribute name ending before position i: blanks, =, blanks,
\* the quoted value.
valueAfterName(tag, i) ==
    IF SkipBlanks(tag, i) > Len(tag) \/ Ch(tag, SkipBlanks(tag, i)) # "=" THEN <<>>
    ELSE quotedValue(tag, SkipBlanks(tag, SkipBlanks(tag, i) + 1))

\* <<value>>, or <<>> for null.
extractAttributeValue(tag, attributeName) ==
    IF IndexFrom(LowerText(tag), LowerText(attributeName), 1) = 0 THEN <<>>
    ELSE valueAfterName(tag, IndexFrom(LowerText(tag), LowerText(attributeName), 1)
                             + Len(attributeName))

\* The positions at which /rel=["']([^"']+)["']/ matches.
relMatches(lowerTag) ==
    {i \in 1..Len(lowerTag) :
        /\ i + 5 <= Len(lowerTag)
        /\ SubSeq(lowerTag, i, i + 3) = "rel="
        /\ IsQuote(Ch(lowerTag, i + 4))
        /\ ~IsQuote(Ch(lowerTag, i + 5))
        /\ \E j \in (i + 6)..Len(lowerTag) : IsQuote(Ch(lowerTag, j))}

\* relMatch[1] of the leftmost match.
relCapture(lowerTag, i) ==
    SubSeq(lowerTag, i + 5,
           (CHOOSE j \in (i + 6)..Len(lowerTag) :
                /\ IsQuote(Ch(lowerTag, j))
                /\ \A k \in (i + 6)..(j - 1) : ~IsQuote(Ch(lowerTag, k))) - 1)

relValuesInclude(capture) ==
    \E i \in 1..Len(SplitWhitespace(capture)) : SplitWhitespace(capture)[i] = "alternate"

isAlternateFeedLinkLower(lowerTag) ==
    /\ relMatches(lowerTag) # {}
    /\ relValuesInclude(relCapture(lowerTag,
                                   CHOOSE i \in relMatches(lowerTag) :
                                       \A j \in relMatches(lowerTag) : i <= j))

isAlternateFeedLink(linkTag) == isAlternateFeedLinkLower(LowerText(linkTag))

typeMentioned(lowerTag, type) ==
    Includes(lowerTag, "type=\"" \o type) \/ Includes(lowerTag, "type='" \o type)

\* The first of feedTypes the tag mentions, <<>> for null.
feedTypeOf(lowerTag, feedTypes) ==
    IF \E i \in 1..Len(feedTypes) : typeMentioned(lowerTag, feedTypes[i])
    THEN <<feedTypes[CHOOSE i \in 1..Len(feedTypes) :
                         /\ typeMentioned(lowerTag, feedTypes[i])
                         /\ \A j \in 1..(i - 1) : ~typeMentioned(lowerTag, feedTypes[j])]>>
    ELSE <<>>

extractFeedInfo(linkTag, feedTypes) ==
    [type |-> feedTypeOf(LowerText(linkTag), feedTypes),
     href |-> extractAttributeValue(linkTag, "href"),
     title |-> extractAttributeValue(linkTag, "title")]

\* The object parseLinkSection returns once the URL is known.
sectionFeed(feedInfo, urlResult) ==
    IF urlResult.ok
    THEN <<[title |-> IF feedInfo.title \in {<<>>, <<"">>} THEN DEFAULT_FEED_TITLE
                      ELSE feedInfo.title[1],
            url |-> Href(urlResult),
            type |-> IF Includes(feedInfo.type[1], "atom") THEN "Atom" ELSE "RSS",
            discoveryMethod |-> "meta-tag"]>>
    ELSE <<>>

feedOfInfo(feedInfo, base) ==
    IF feedInfo.type = <<>> \/ feedInfo.href \in {<<>>, <<"">>} THEN <<>>
    ELSE sectionFeed(feedInfo, NewURLWithBase(feedInfo.href[1], base))

feedOfTag(linkTag, feedTypes, base) ==
    IF ~isAlternateFeedLink(linkTag) THEN <<>>
    ELSE feedOfInfo(extractFeedInfo(linkTag, feedTypes), base)

\* endIndex === -1 || endIndex > MAX_LINK_TAG_LENGTH, for the 1-based
\* position of the first > .
tagRejected(endPos) == endPos = 0 \/ endPos - 1 > MAX_LINK_TAG_LENGTH

\* <<feed>>, or <<>> for null.
parseLinkSection(section, feedTypes, base) ==
    IF tagRejected(IndexFrom(section, ">", 1)) THEN <<>>
    ELSE feedOfTag("<link" \o SubSeq(section, 1, IndexFrom(section, ">", 1)), feedTypes, base)

\* The positions of the matches of /<link/gi.
linkPositions(document) ==
    {i \in 1..Len(document) :
        /\ i + 4 <= Len(document)
        /\ Ch(document, i) = "<"
        /\ LowerText(SubSeq(document, i + 1, i + 4)) = "link"}

\* html.split(/<link/gi) without its first element: the text from each
\* match to the next one, or to the end.
linkSectionAt(document, i) ==
    SubSeq(document, i + 5,
           IF \E j \in linkPositions(document) : j > i
           THEN (CHOOSE j \in linkPositions(document) :
                    j > i /\ \A k \in linkPositions(document) : k > i => j <= k) - 1
           ELSE Len(document))

RECURSIVE sectionsFrom(_, _)
sectionsFrom(document, positions) ==
    IF positions = {} THEN <<>>
    ELSE <<linkSectionAt(document, CHOOSE i \in positions : \A j \in positions : i <= j)>>
         \o sectionsFrom(document,
                         positions \ {CHOOSE i \in positions : \A j \in positions : i <= j})

linkSections(document) == sectionsFrom(document, linkPositions(document))

\* One turn of the loop of processLinkSections.
pushFeed(feeds, feed) ==
    IF feed # <<>> /\ \A i \in 1..Len(feeds) : feeds[i].url # feed[1].url
    THEN feeds \o feed ELSE feeds

\* The loop when it ends at the first section that gives no feed.
RECURSIVE processLinkSectionsStopping(_, _, _)
processLinkSectionsStopping(sections, base, feeds) ==
    IF sections = <<>> \/ parseLinkSection(Head(sections), SUPPORTED_FEED_TYPES, base) = <<>>
    THEN feeds
    ELSE processLinkSectionsStopping(Tail(sections), base,
             pushFeed(feeds, parseLinkSection(Head(sections), SUPPORTED_FEED_TYPES, base)))

RECURSIVE processLinkSections(_, _, _)
processLinkSections(sections, base, feeds) ==
    IF sections = <<>> THEN feeds
    ELSE processLinkSections(Tail(sections), base,
             pushFeed(feeds, parseLinkSection(Head(sections), SUPPORTED_FEED_TYPES, base)))

findMetaFeedsWithStringParsing(document, base) ==
    processLinkSections(linkSections(document), base, <<>>)

(***************************************************************************)
(* worker/discovery/commonPaths.ts                                         *)
(***************************************************************************)
\* The list with a candidate that names another host.
rootPathsOffSite == <<"//b.io/feed", "/feeds", "/rss", "/rss.xml", "/feed.xml", "/atom.xml", "/index.xml">>

rootPaths == <<"/feed", "/feeds", "/rss", "/rss.xml", "/feed.xml", "/atom.xml", "/index.xml">>

relativePaths == <<"feed/", "feeds/", "rss/", "feed.xml", "rss.xml", "atom.xml", "index.xml">>

\* The candidate list without the path-relative variants.
commonPathsRootOnly == rootPaths

commonPaths == rootPaths \o relativePaths

\* validation.isOk() ? { path, url: validation.value.href } : null
validatedItem(path, validation) ==
    IF IsOk(validation) THEN <<[path |-> path, url |-> Href(validation.value)]>> ELSE <<>>

\* The candidate kept whatever validateTargetUrl says of it.
resolvedItemUnchecked(path, feedUrl) ==
    IF feedUrl.ok THEN <<[path |-> path, url |-> Href(feedUrl)]>> ELSE <<>>

\* null when new URL(path, baseUrl) throws, else the validation of its href
resolvedItem(path, feedUrl) ==
    IF feedUrl.ok THEN validatedItem(path, validateTargetUrl(Href(feedUrl))) ELSE <<>>

candidateItem(path, base) == resolvedItem(path, NewURLWithBase(path, base))

validFeedUrls(base) ==
    Flatten([i \in 1..Len(commonPaths) |-> candidateItem(commonPaths[i], base)])

FeedContentTypes ==
    {"application/rss+xml", "application/atom+xml", "application/rdf+xml", "text/xml",
     "application/xml"}

\* /^(application\/(rss|atom|rdf)\+xml|text\/xml|application\/xml)/.test(lowered)
isFeed(lowered) == \E p \in FeedContentTypes : StartsWith(lowered, p)

\* response.headers.get("content-type") || ""
contentTypeOf(res) == IF res.contentType = <<>> THEN "" ELSE res.contentType[1]

probeFeed(item, contentType) ==
    IF isFeed(ToLowerCase(contentType))
    THEN <<[url |-> item.url, title |-> item.path \o " feed",
            type |-> IF Includes(contentType, "atom") THEN "Atom" ELSE "RSS",
            discoveryMethod |-> "common-path"]>>
    ELSE <<>>

\* safeFetch(url, HEAD).map(...).orElse(() => ok(null)); <<>> stands for null
probeResult(item, fetched) ==
    IF IsOk(fetched) THEN probeFeed(item, contentTypeOf(fetched.value)) ELSE <<>>

(***************************************************************************)
(* worker/discovery/index.ts                                               *)
(***************************************************************************)
\* validateTargetUrl(targetUrl).mapErr(...)
discoverValidation(validation) ==
    IF IsOk(validation) THEN validation ELSE Err("FETCH_FAILED", validation.error.message)

RECURSIVE addFeeds(_, _, _)
\* forEach over list with the set foundUrls and the array feeds
addFeeds(list, foundUrls, feeds) ==
    IF list = <<>> THEN [foundUrls |-> foundUrls, feeds |-> feeds]
    ELSE IF Head(list).url \in foundUrls THEN addFeeds(Tail(list), foundUrls, feeds)
    ELSE addFeeds(Tail(list), foundUrls \cup {Head(list).url}, Append(feeds, Head(list)))

mergeCommon(commonFeeds, added) == addFeeds(commonFeeds, added.foundUrls, added.feeds).feeds

\* The two lists added in the other order.
mergeFeedsCommonFirst(metaFeeds, commonFeeds) ==
    mergeCommon(metaFeeds, addFeeds(commonFeeds, {}, <<>>))

mergeFeeds(metaFeeds, commonFeeds) == mergeCommon(commonFeeds, addFeeds(metaFeeds, {}, <<>>))

(***************************************************************************)
(* worker/http/errors.ts                                                   *)
(***************************************************************************)
\* console.error(`[${errorId}] Error type: ${error.type}, Details: ${error.message}`)
errorLog(errorId, error) ==
    "[" \o errorId \o "] Error type: " \o error.type \o ", Details: " \o error.message

userMessageDetailed(error) == error.message

userMessage(error) ==
    CASE error.type \in {"INVALID_REQUEST_BODY", "MISSING_URL", "INVALID_URL_FORMAT",
                         "URL_NOT_PERMITTED"} ->
            "Invalid request. Please check your input and try again."
      [] error.type \in {"FETCH_FAILED", "NETWORK_ERROR", "TIMEOUT_ERROR"} ->
            "Unable to access the requested URL. Please try again later."
      [] error.type = "PARSING_ERROR" ->
            "Unable to analyze the website content. Please try a different URL."
      [] OTHER -> "An unexpected error occurred. Please try again later."

statusCode(error) ==
    CASE error.type \in {"INVALID_REQUEST_BODY", "MISSING_URL", "INVALID_URL_FORMAT",
                         "URL_NOT_PERMITTED"} -> 400
      [] error.type = "TIMEOUT_ERROR" -> 408
      [] error.type = "FETCH_FAILED" -> IF Includes(error.message, "404") THEN 404 ELSE 502
      [] OTHER -> 500

createErrorResponse(error) ==
    [status |-> statusCode(error), body |-> [success |-> FALSE, error |-> userMessage(error)]]

\* The response with the correlation id drawn for it, and the line logged.
createErrorResponseWithId(error, errorId) ==
    [response |-> [status |-> statusCode(error),
                   body |-> [success |-> FALSE, error |-> userMessage(error),
                             errorId |-> errorId]],
     log |-> errorLog(errorId, error)]

(***************************************************************************)
(* worker/index.modular.ts                                                 *)
(*                                                                         *)
(* A request is [json |-> <<>>] when request.json() rejects and            *)
(* [json |-> <<body>>] when it resolves with the JSON value body.          *)
(***************************************************************************)
requestJson(request) ==
    IF request.json = <<>>
    THEN Err("INVALID_REQUEST_BODY", "Invalid JSON in request body")
    ELSE Ok(request.json[1])

\* Result.andThen for the string-valued stages
thenValidate(normalized) == IF IsOk(normalized) THEN validateTargetUrl(normalized.value) ELSE normalized

thenNormalizeSkipped(parsed) == parsed

thenNormalize(parsed) == IF IsOk(parsed) THEN normalizeUrl(parsed.value) ELSE parsed

thenParse(json) == IF IsOk(json) THEN parseRequestBody(json.value) ELSE json

\* The chain with the validation stage left out: the normalized text is
\* parsed and handed on.
validatedUrlUnchecked(request) ==
    IF IsOk(thenNormalize(thenParse(requestJson(request))))
    THEN safeCreateUrl(thenNormalize(thenParse(requestJson(request))).value)
    ELSE thenNormalize(thenParse(requestJson(request)))

\* request.json() -> parseRequestBody -> normalizeUrl -> validateTargetUrl
validatedUrl(request) == thenValidate(thenNormalize(thenParse(requestJson(request))))

successResponse(searchedUrl, feeds) ==
    [status |-> 200,
     body |-> [success |-> TRUE, searchedUrl |-> searchedUrl, totalFound |-> Len(feeds),
               feeds |-> feeds]]

(***************************************************************************)
(* State.                                                                  *)
(*   fnIn, fnOut, fnOut2  the argument and the results of the pure         *)
(*                        functions under SpecValidate and SpecNormalize   *)
(*   call       the invocation: a request to handleFeedSearch, or a direct *)
(*              call of discoverFeeds or of tryCommonPaths                 *)
(*   site       what the network answers to the GET and to each HEAD       *)
(*   pc         how far the invocation has got                             *)
(*   targetUrl  the argument of discoverFeeds or tryCommonPaths            *)
(*   baseUrl    validatedUrl.href inside discoverFeeds, the baseUrl of     *)
(*              tryCommonPaths                                             *)
(*   net        the requests handed to fetch, in the order of the calls    *)
(*   html       the HTML branch of discoverFeeds                           *)
(*   result     the value the ResultAsync of the call resolved with        *)
(*   response   the Response of handleFeedSearch                           *)
(*   ops        the invocations of safeFetch under SpecFetch: the plan of  *)
(*              the network, the timer, the abort flag of the controller,  *)
(*              the number of calls of fetch and the result                *)
(*   now        the time in milliseconds under SpecFetch                   *)
(***************************************************************************)
VARIABLES fnIn, fnOut, fnOut2, call, site, pc, targetUrl, baseUrl, net, html, result, response,
          ops, now

fnVars == <<fnIn, fnOut, fnOut2>>

mainVars == <<call, site, pc, targetUrl, baseUrl, net, html, result, response>>

fetchVars == <<ops, now>>

vars ==
    <<fnIn, fnOut, fnOut2, call, site, pc, targetUrl, baseUrl, net, html, result, response,
      ops, now>>

MainIdle ==
    /\ call = <<>> /\ site = <<>> /\ pc = "off" /\ targetUrl = "" /\ baseUrl = ""
    /\ net = <<>> /\ html = <<>> /\ result = <<>> /\ response = <<>>

FnIdle == fnIn = <<>> /\ fnOut = <<>> /\ fnOut2 = <<>>

FetchIdle == ops = <<>> /\ now = 0

(***************************************************************************)
(* SpecValidate: validateTargetUrl on URL texts spelled from a scheme      *)
(* prefix, a host, a port suffix and a path.  A host is given with what it *)
(* denotes: a name, an IPv4 address (its four octets, in one of several    *)
(* spellings) or a bracketed IPv6 literal.                                 *)
(***************************************************************************)
VSchemes == {"http://", "https://", "HTTP://", "ftp://", "file://", "gopher://", ""}

VNames == {"example.com", "a.io", "localhost", "LOCALHOST", "LocalHost", "localhost.io",
           "notlocalhost", "a b", ""}

VFirstOctets == {1, 9, 10, 11, 126, 127, 128, 169, 172, 192}

VSecondOctets == {0, 15, 16, 31, 32, 168, 254}

DottedDecimal(o) == Join([k \in 1..4 |-> NatToString(o[k])], ".")

\* Other spellings of IPv4 addresses that the URL parser accepts.
VSpelledV4 ==
    { [k |-> "v4", o |-> <<127, 0, 0, 1>>, text |-> "127.1"],
      [k |-> "v4", o |-> <<127, 0, 0, 1>>, text |-> "2130706433"],
      [k |-> "v4", o |-> <<127, 0, 0, 1>>, text |-> "0x7f.0.0.1"],
      [k |-> "v4", o |-> <<10, 0, 0, 1>>, text |-> "10.1"],
      [k |-> "v4", o |-> <<10, 0, 0, 1>>, text |-> "012.0.0.1"],
      [k |-> "v4", o |-> <<192, 168, 0, 1>>, text |-> "0xc0.0xa8.0.1"],
      [k |-> "v4", o |-> <<169, 254, 169, 254>>, text |-> "169.254.169.254"],
      [k |-> "v4", o |-> <<169, 254, 169, 254>>, text |-> "2852039166"],
      [k |-> "v4", o |-> <<172, 16, 0, 1>>, text |-> "172.16.1."],
      [k |-> "v4", o |-> <<8, 8, 8, 8>>, text |-> "8.8.8.8"] }

VIPv6Texts == {"[::1]", "[0:0:0:0:0:0:0:1]", "[0000:0000:0000:0000:0000:0000:0000:0001]",
               "[::0:1]", "[0::1]", "[::]", "[::2]", "[1::1]",
               "[fc00::1]", "[FC00::1]", "[fc00:0:0:0:0:0:0:1]", "[fc00:1:2:3:4:5:6:7]",
               "[fc01::1]", "[fcff::1]", "[fd00::1]", "[fdab:1::2]", "[fdff:ffff::]",
               "[fbff::1]", "[fe00::1]", "[fe80::1]", "[2001:db8::1]", "[fc00::1", "[::1::]"}

VHosts ==
    {[k |-> "name", text |-> n] : n \in VNames}
    \cup {[k |-> "v4", o |-> <<a, b, 0, 1>>, text |-> DottedDecimal(<<a, b, 0, 1>>)] :
              a \in VFirstOctets, b \in VSecondOctets}
    \cup VSpelledV4
    \cup {[k |-> "v6", text |-> t] : t \in VIPv6Texts}

VPorts == {"", ":", ":80", ":443", ":8080", ":8443", ":0080", ":0", ":22", ":3000", ":8081",
           ":65535", ":65536"}

VPaths == {"", "/a/feed"}

VInputs == [scheme : VSchemes, host : VHosts, port : VPorts, path : VPaths]

VText(in) == in.scheme \o in.host.text \o in.port \o in.path

InitValidate == fnIn \in VInputs /\ fnOut = <<>> /\ fnOut2 = <<>> /\ MainIdle /\ FetchIdle

Validate ==
    /\ fnIn \in VInputs
    /\ fnOut = <<>>
    /\ fnOut' = <<validateTargetUrl(VText(fnIn))>>
    /\ UNCHANGED <<fnIn, fnOut2>>
    /\ UNCHANGED <<mainVars, fetchVars>>

NextValidate == Validate

SpecValidate == InitValidate /\ [][NextValidate]_vars

(***************************************************************************)
(* SpecNormalize: normalizeUrl on texts spelled from a prefix, a middle    *)
(* and a suffix, then normalizeUrl again on a successful result.           *)
(***************************************************************************)
NPrefixes == {"", " ", "\t", "http://", "https://", "HTTP://", "http:/", "https:/", "http:",
              "http", "https", "ftp://", "://", "httpx://"}

NMiddles == {"", "example.com", "localhost", "a b", "a.io:8080/x", "a.io/x://y", "[::1]",
             "10.0.0.1", "a.io:99999", ":"}

NSuffixes == {"", " ", "/", "://", ":"}

NInputs == {p \o m \o x : p \in NPrefixes, m \in NMiddles, x \in NSuffixes}

InitNormalize == fnIn \in NInputs /\ fnOut = <<>> /\ fnOut2 = <<>> /\ MainIdle /\ FetchIdle

Normalize ==
    /\ fnOut = <<>>
    /\ fnOut' = <<normalizeUrl(fnIn)>>
    /\ UNCHANGED <<fnIn, fnOut2>>
    /\ UNCHANGED <<mainVars, fetchVars>>

Renormalize ==
    /\ fnOut # <<>>
    /\ IsOk(fnOut[1])
    /\ fnOut2 = <<>>
    /\ fnOut2' = <<normalizeUrl(fnOut[1].value)>>
    /\ UNCHANGED <<fnIn, fnOut>>
    /\ UNCHANGED <<mainVars, fetchVars>>

NextNormalize == Normalize \/ Renormalize

SpecNormalize == InitNormalize /\ [][NextNormalize]_vars

(***************************************************************************)
(* SpecRequest: the request safeFetch hands to fetch, for options with and *)
(* without a method, a body, a signal and headers of their own.            *)
(***************************************************************************)
Property(name, value) == [name |-> name, value |-> value]

RHeaderNames == <<"Accept", "User-Agent", "user-agent", "X-Trace">>

RHeaderValues == <<"application/xml", "Other/2.0", "other/3.0", "t1">>

\* The header objects whose properties are drawn, in order, from the names
\* above.
RHeaderObjects ==
    {SelectSeq([i \in 1..Len(RHeaderNames) |-> Property(RHeaderNames[i], RHeaderValues[i])],
               LAMBDA p : p.name \in names) : names \in SUBSET {"Accept", "User-Agent",
                                                                "user-agent", "X-Trace"}}

ROptions ==
    [method : {<<>>, <<"HEAD">>, <<"POST">>},
     body : {<<>>, <<"q=1">>},
     signal : {<<>>, <<"caller">>},
     headers : {<<>>} \cup {<<h>> : h \in RHeaderObjects}]

InitRequest == fnIn \in ROptions /\ fnOut = <<>> /\ fnOut2 = <<>> /\ MainIdle /\ FetchIdle

BuildRequest ==
    /\ fnOut = <<>>
    /\ fnOut' = <<fetchInit(fnIn, "controller")>>
    /\ UNCHANGED <<fnIn, fnOut2>>
    /\ UNCHANGED <<mainVars, fetchVars>>

NextRequest == BuildRequest

SpecRequest == InitRequest /\ [][NextRequest]_vars

(***************************************************************************)
(* SpecErrors: createErrorResponse on errors of every type, with messages  *)
(* and carried statuses that agree and that disagree.                      *)
(***************************************************************************)
EMessages == {"HTTP 404", "HTTP 500", "HTTP 503 for /errors/404.html", "Not Found",
              "Access to localhost is not permitted", "Network error: connect 10.0.0.7:8080"}

ETypes == {"INVALID_REQUEST_BODY", "MISSING_URL", "INVALID_URL_FORMAT", "URL_NOT_PERMITTED",
           "NETWORK_ERROR", "TIMEOUT_ERROR", "PARSING_ERROR", "SOMETHING_ELSE"}

EInputs ==
    [type : ETypes, message : EMessages]
    \cup [type : {"FETCH_FAILED"}, message : EMessages]
    \cup [type : {"FETCH_FAILED"}, message : EMessages, status : {404, 500, 503}]

\* Math.random().toString(36).slice(2, 11)
ErrorIds == {"k3j9x2m1q", "0a1b2c3d4", ""}

InitErrors == fnIn \in EInputs /\ fnOut = <<>> /\ fnOut2 = <<>> /\ MainIdle /\ FetchIdle

ErrorResponse ==
    /\ fnOut = <<>>
    /\ \E errorId \in ErrorIds : fnOut' = <<createErrorResponseWithId(fnIn, errorId)>>
    /\ UNCHANGED <<fnIn, fnOut2>>
    /\ UNCHANGED <<mainVars, fetchVars>>

NextErrors == ErrorResponse

SpecErrors == InitErrors /\ [][NextErrors]_vars

(***************************************************************************)
(* Spec: one invocation against one site.                                  *)
(***************************************************************************)
Resp(status, contentType, body) ==
    [k |-> "response", status |-> status, contentType |-> contentType, body |-> body]

NotFound == Resp(404, <<"text/html">>, <<>>)

Link(rel, type, href, title) == [rel |-> rel, type |-> type, href |-> href, title |-> title]

PageBlog ==
    << Link(<<"stylesheet">>, <<"text/css">>, <<"/s.css">>, <<>>),
       Link(<<"alternate">>, <<"application/rss+xml">>, <<"/feed.xml">>, <<"Blog">>),
       Link(<<"alternate">>, <<"application/atom+xml">>, <<"https://b.io/atom">>, <<>>),
       Link(<<"alternate">>, <<"text/html">>, <<"/en/">>, <<"English">>),
       Link(<<"alternate">>, <<"application/rss+xml">>, <<"feed.xml">>, <<"Again">>) >>

PageMixed ==
    << Link(<<"feed\tALTERNATE">>, <<"Application/Atom+XML; charset=utf-8">>, <<"feed/">>, <<"">>),
       Link(<<"alternate">>, <<"application/rss+xml">>, <<"http://10.0.0.1/feed">>, <<"Inside">>),
       Link(<<"alternate">>, <<"application/rss+xml">>, <<"http://a b/">>, <<"Broken">>),
       Link(<<>>, <<"application/rss+xml">>, <<"/rss">>, <<>>),
       Link(<<"alternate">>, <<>>, <<"/rss">>, <<>>),
       Link(<<"alternate">>, <<"text/xml">>, <<>>, <<>>),
       Link(<<"alternate">>, <<"text/xml">>, <<"/index.xml">>, <<"Index">>),
       Link(<<"alternate">>, <<"application/rss+xml; x=atom">>, <<"/atom.xml">>, <<"Typed">>) >>

Pages == {<<>>, PageBlog, PageMixed}

GetOutcomes ==
    {Resp(200, <<"text/html">>, [readable |-> TRUE, links |-> p]) : p \in Pages}
    \cup {Resp(200, <<"text/html">>, [readable |-> FALSE]),
          Resp(404, <<"text/html">>, [readable |-> TRUE, links |-> PageBlog]),
          Resp(500, <<>>, [readable |-> TRUE, links |-> <<>>]),
          [k |-> "abort"], [k |-> "error", message |-> "connection refused"], [k |-> "thrown"]}

\* What the site answers to a HEAD of a URL; every other URL is not found.
FeedHeads ==
    ("https://a.io/feed.xml" :> Resp(200, <<"application/rss+xml">>, <<>>))
    @@ ("https://a.io/atom.xml" :> Resp(200, <<"application/atom+xml; charset=utf-8">>, <<>>))
    @@ ("https://a.io/rss" :> Resp(200, <<"text/html">>, <<>>))
    @@ ("https://a.io/rss.xml" :> Resp(200, <<>>, <<>>))
    @@ ("https://a.io/feeds" :> [k |-> "error", message |-> "reset"])
    @@ ("https://a.io/index.xml" :> [k |-> "abort"])
    @@ ("https://a.io/feed" :> Resp(301, <<"application/rss+xml">>, <<>>))
    @@ ("https://a.io/ja/blog/feed/" :> Resp(200, <<"application/rss+xml">>, <<>>))
    @@ ("https://a.io/ja/blog/atom.xml" :> Resp(200, <<"Application/Atom+XML">>, <<>>))
    @@ ("https://a.io/ja/blog/index.xml" :> Resp(200, <<"text/xml; charset=utf-8">>, <<>>))
    @@ ("https://a.io/ja/blog/rss/" :> [k |-> "thrown"])
    @@ ("http://a.io:8080/rss.xml" :> Resp(204, <<"application/xml">>, <<>>))

NoHeads == <<>>

\* A blog under a subpath whose only feed is <base>feed/.
BlogFeedOnly == "https://a.io/ja/blog/feed/" :> Resp(200, <<"application/rss+xml">>, <<>>)

Sites ==
    [get : GetOutcomes, head : {FeedHeads, NoHeads}]
    \cup [get : {Resp(200, <<"text/html">>, [readable |-> TRUE, links |-> <<>>]),
                 [k |-> "abort"]},
          head : {BlogFeedOnly}]

HeadOutcomeAt(heads, url) == IF url \in DOMAIN heads THEN heads[url] ELSE NotFound

HeadOutcome(url) == HeadOutcomeAt(site.head, url)

SubmittedUrls ==
    {"", "  ", "a.io", "https://a.io/ja/blog/", "http://a.io:8080/x", "localhost",
     "http://10.0.0.1/", "ftp://a.io/", "a b", "https://a.io:22/", "http:/", "HTTP://A.IO/"}

Bodies ==
    {[t |-> "null"], [t |-> "number"], [t |-> "string"], [t |-> "array"],
     [t |-> "object", url |-> <<>>], [t |-> "object", url |-> <<[t |-> "number"]>>]}
    \cup {[t |-> "object", url |-> <<[t |-> "string", s |-> u]>>] : u \in SubmittedUrls}

Requests == {[json |-> <<>>]} \cup {[json |-> <<b>>] : b \in Bodies}

DiscoverArgs ==
    {"https://a.io/", "https://a.io/ja/blog/", "https://a.io", "http://localhost/",
     "not a url", "https://a.io:22/", "https://192.168.0.1/"}

ProberArgs ==
    {"https://a.io/", "https://a.io/ja/blog/", "http://localhost:8080/", "ftp://a.io/",
     "not a url", "http://169.254.169.254/latest/"}

\* What a stand-in for tryCommonPaths resolves with (the unit tests of
\* discoverFeeds replace the module by one): a list, or an error.
StubFeed ==
    [url |-> "https://a.io/feed.xml", title |-> "/feed feed", type |-> "RSS",
     discoveryMethod |-> "common-path"]

StubResults ==
    {Ok(<<StubFeed>>), Ok(<<>>), Err("NETWORK_ERROR", "All paths failed"),
     Err("TIMEOUT_ERROR", "Probe timed out")}

Calls ==
    {[entry |-> "handler", request |-> r] : r \in Requests}
    \cup {[entry |-> "discover", url |-> u] : u \in DiscoverArgs}
    \cup {[entry |-> "prober", url |-> u] : u \in ProberArgs}
    \cup {[entry |-> "stubbed", url |-> "https://a.io/", stub |-> r] : r \in StubResults}

\* For every request, target, base, page and candidate of the calls above,
\* the outcome of the validation chain, of validateTargetUrl, of the
\* candidate list, of findMetaFeeds and of a probe, each worked out once.
validatedRequests == [r \in Requests |-> validatedUrl(r)]

HandlerTargets ==
    {Href(validatedRequests[r].value) : r \in {q \in Requests : IsOk(validatedRequests[q])}}

TargetUrls == HandlerTargets \cup DiscoverArgs \cup ProberArgs \cup {"https://a.io/"}

validatedTargets == [u \in TargetUrls |-> validateTargetUrl(u)]

BaseUrls ==
    ProberArgs
    \cup {Href(validatedTargets[u].value) : u \in {t \in TargetUrls : IsOk(validatedTargets[t])}}

candidateUrls == [u \in BaseUrls |-> validFeedUrls(u)]

metaFeedsOf == [p \in Pages, u \in BaseUrls |-> findMetaFeeds(p, u)]

CandidateItems == UNION {{candidateUrls[u][i] : i \in 1..Len(candidateUrls[u])} : u \in BaseUrls}

probedValues ==
    [heads \in {s.head : s \in Sites}, item \in CandidateItems |->
        probeResult(item, safeFetch(item.url, HeadOutcomeAt(heads, item.url)))]

\* How many earlier probes of its round may still be in flight when a probe
\* completes.  A probe's handler touches only its own entry, so the bound
\* limits the interleavings, not the results a round can end with.
MaxOvertaken == 2

Init ==
    /\ FnIdle
    /\ FetchIdle
    /\ call \in Calls
    /\ site \in Sites
    /\ pc = (CASE call.entry = "handler" -> "idle"
               [] call.entry \in {"discover", "stubbed"} -> "discover"
               [] call.entry = "prober" -> "probe")
    /\ targetUrl = (IF call.entry = "handler" THEN "" ELSE call.url)
    /\ baseUrl = ""
    /\ net = <<>>
    /\ html = <<>>
    /\ result = <<>>
    /\ response = <<>>

GetRequest(url) ==
    [method |-> "GET", url |-> url, round |-> 1, path |-> "", state |-> "inflight", value |-> <<>>]

\* validFeedUrls.map(({ path, url }) => safeFetch(url, { method: "HEAD" }) ...)
HeadRequests(items, round) ==
    [i \in 1..Len(items) |->
        [method |-> "HEAD", url |-> items[i].url, round |-> round, path |-> items[i].path,
         state |-> "inflight", value |-> <<>>]]

RoundSettled(round) ==
    \A i \in 1..Len(net) :
        (net[i].method = "HEAD" /\ net[i].round = round) => net[i].state = "settled"

RECURSIVE TakeUntilNull(_)
TakeUntilNull(values) ==
    IF values = <<>> \/ Head(values) = <<>> THEN <<>>
    ELSE Head(values) \o TakeUntilNull(Tail(values))

\* The results up to the first candidate that gave none.
commonFeedsUntilFailure(round) ==
    LET InRound(r) == r.method = "HEAD" /\ r.round = round
        probes == SelectSeq(net, InRound)
    IN  TakeUntilNull([i \in 1..Len(probes) |-> probes[i].value])

\* ResultAsync.combine(feedPromises).map(results => results.filter(non-null))
commonFeeds(round) ==
    Flatten([i \in 1..Len(net) |->
                IF net[i].method = "HEAD" /\ net[i].round = round THEN net[i].value ELSE <<>>])

\* discoverFeeds runs with a stand-in for tryCommonPaths.
Stubbed == call.entry = "stubbed"

\* What the ResultAsync of a call of tryCommonPaths resolves with.
ProbeBranch(round) == IF Stubbed THEN call.stub ELSE Ok(commonFeeds(round))

\* The chain of handleFeedSearch up to the call of discoverFeeds.
HandleValidated(validated) ==
    IF IsOk(validated)
    THEN /\ targetUrl' = Href(validated.value)
         /\ pc' = "discover"
         /\ UNCHANGED response
    ELSE /\ response' = <<createErrorResponse(validated.error)>>
         /\ pc' = "responded"
         /\ UNCHANGED targetUrl

HandleRequest ==
    /\ pc = "idle"
    /\ HandleValidated(validatedRequests[call.request])
    /\ UNCHANGED <<fnVars, fetchVars, call, site, baseUrl, net, html, result>>

\* The asyncAndThen callback of discoverFeeds: the GET, then the probes.
StartBranches(href, items) ==
    /\ baseUrl' = href
    /\ net' = <<GetRequest(href)>> \o HeadRequests(items, 1)
    /\ html' = [k |-> "inflight"]
    /\ pc' = "fetching"
    /\ UNCHANGED result

StartValidated(href) == StartBranches(href, IF Stubbed THEN <<>> ELSE candidateUrls[href])

DiscoverValidated(validation) ==
    IF IsOk(validation)
    THEN StartValidated(Href(validation.value))
    ELSE /\ result' = <<validation>>
         /\ pc' = "settled"
         /\ UNCHANGED <<baseUrl, net, html>>

DiscoverStart ==
    /\ pc = "discover"
    /\ DiscoverValidated(discoverValidation(validatedTargets[targetUrl]))
    /\ UNCHANGED <<fnVars, fetchVars, call, site, targetUrl, response>>

\* tryCommonPaths called on its own.
ProberStart ==
    /\ pc = "probe"
    /\ baseUrl' = targetUrl
    /\ net' = HeadRequests(candidateUrls[targetUrl], 1)
    /\ pc' = "probing"
    /\ UNCHANGED <<fnVars, fetchVars, call, site, targetUrl, html, result, response>>

\* The fetch of the target page settles.
GetSettled(fetched) ==
    /\ net' = [net EXCEPT ![1].state = "settled"]
    /\ html' = IF IsOk(fetched)
               THEN [k |-> "reading", body |-> fetched.value.body]
               ELSE [k |-> "settled", result |-> fetched]

GetCompletes ==
    /\ pc = "fetching"
    /\ net[1].state = "inflight"
    /\ GetSettled(safeFetch(net[1].url, site.get))
    /\ UNCHANGED <<fnVars, fetchVars, call, site, pc, targetUrl, baseUrl, result, response>>

\* response.text() settles, and findMetaFeeds runs on the text.
TextSettles ==
    /\ pc = "fetching"
    /\ html.k = "reading"
    /\ html' = [k |-> "settled",
                result |-> IF html.body.readable
                           THEN Ok(metaFeedsOf[html.body.links, baseUrl])
                           ELSE Err("PARSING_ERROR", "Failed to parse response body")]
    /\ UNCHANGED <<fnVars, fetchVars, call, site, pc, targetUrl, baseUrl, net, result, response>>

Overtaken(i) ==
    {j \in 1..(i - 1) :
        net[j].method = "HEAD" /\ net[j].round = net[i].round /\ net[j].state = "inflight"}

\* The fetch of one probe settles.
HeadCompletes ==
    /\ pc \in {"fetching", "fallback", "probing"}
    /\ \E i \in 1..Len(net) :
        /\ net[i].method = "HEAD"
        /\ net[i].state = "inflight"
        /\ Cardinality(Overtaken(i)) < MaxOvertaken
        /\ net' = [net EXCEPT ![i].state = "settled",
                              ![i].value = probedValues[site.head,
                                                        [path |-> net[i].path, url |-> net[i].url]]]
    /\ UNCHANGED <<fnVars, fetchVars, call, site, pc, targetUrl, baseUrl, html, result, response>>

\* The merge as soon as the HTML branch has succeeded, whatever the probes.
MergeEarly ==
    /\ pc = "fetching"
    /\ html.k = "settled"
    /\ IsOk(html.result)
    /\ IsOk(ProbeBranch(1))
    /\ result' = <<Ok(mergeFeeds(html.result.value, ProbeBranch(1).value))>>
    /\ pc' = "settled"
    /\ UNCHANGED <<fnVars, fetchVars, call, site, targetUrl, baseUrl, net, html, response>>

\* Both branches have settled and both succeeded: the map callback.
Merge ==
    /\ pc = "fetching"
    /\ html.k = "settled"
    /\ IsOk(html.result)
    /\ RoundSettled(1)
    /\ IsOk(ProbeBranch(1))
    /\ result' = <<Ok(mergeFeeds(html.result.value, ProbeBranch(1).value))>>
    /\ pc' = "settled"
    /\ UNCHANGED <<fnVars, fetchVars, call, site, targetUrl, baseUrl, net, html, response>>

\* The combined result handed on as it is, without the orElse callback.
FallbackPropagates ==
    /\ pc = "fetching"
    /\ html.k = "settled"
    /\ RoundSettled(1)
    /\ IsErr(html.result) \/ IsErr(ProbeBranch(1))
    /\ result' = <<IF IsErr(html.result) THEN html.result ELSE ProbeBranch(1)>>
    /\ pc' = "settled"
    /\ UNCHANGED <<fnVars, fetchVars, call, site, targetUrl, baseUrl, net, html, response>>

\* Both branches have settled and one of them failed: the orElse callback
\* calls tryCommonPaths again.
Fallback ==
    /\ pc = "fetching"
    /\ html.k = "settled"
    /\ RoundSettled(1)
    /\ IsErr(html.result) \/ IsErr(ProbeBranch(1))
    /\ net' = net \o HeadRequests(IF Stubbed THEN <<>> ELSE candidateUrls[baseUrl], 2)
    /\ pc' = "fallback"
    /\ UNCHANGED <<fnVars, fetchVars, call, site, targetUrl, baseUrl, html, result, response>>

\* The fallback round ends with the error of the HTML branch when there is one.
FallbackDoneKeepsError ==
    /\ pc = "fallback"
    /\ RoundSettled(2)
    /\ result' = <<IF IsErr(html.result) THEN html.result ELSE ProbeBranch(2)>>
    /\ pc' = "settled"
    /\ UNCHANGED <<fnVars, fetchVars, call, site, targetUrl, baseUrl, net, html, response>>

FallbackDone ==
    /\ pc = "fallback"
    /\ RoundSettled(2)
    /\ result' = <<ProbeBranch(2)>>
    /\ pc' = "settled"
    /\ UNCHANGED <<fnVars, fetchVars, call, site, targetUrl, baseUrl, net, html, response>>

ProberDone ==
    /\ pc = "probing"
    /\ RoundSettled(1)
    /\ result' = <<Ok(commonFeeds(1))>>
    /\ pc' = "settled"
    /\ UNCHANGED <<fnVars, fetchVars, call, site, targetUrl, baseUrl, net, html, response>>

\* result.match(...) of handleFeedSearch
Respond ==
    /\ pc = "settled"
    /\ call.entry = "handler"
    /\ response' = <<IF IsOk(result[1])
                     THEN successResponse(targetUrl, result[1].value)
                     ELSE createErrorResponse(result[1].error)>>
    /\ pc' = "responded"
    /\ UNCHANGED <<fnVars, fetchVars, call, site, targetUrl, baseUrl, net, html, result>>

Next ==
    \/ HandleRequest
    \/ DiscoverStart
    \/ ProberStart
    \/ GetCompletes
    \/ TextSettles
    \/ HeadCompletes
    \/ Merge
    \/ Fallback
    \/ FallbackDone
    \/ ProberDone
    \/ Respond

Spec == Init /\ [][Next]_vars

\* Every network operation eventually responds, fails or times out, and
\* the event loop runs every callback that is ready.
NetworkResponds == WF_vars(GetCompletes) /\ WF_vars(TextSettles) /\ WF_vars(HeadCompletes)

CallbacksRun ==
    WF_vars(HandleRequest \/ DiscoverStart \/ ProberStart \/ Merge \/ Fallback
                \/ FallbackDone \/ ProberDone \/ Respond)

SpecLive == Spec /\ NetworkResponds /\ CallbacksRun

(***************************************************************************)
(* SpecExtract: findMetaFeeds on documents of one link element with every  *)
(* combination of attribute values, and on the pages of Spec.              *)
(***************************************************************************)
XRels == {<<>>, <<"">>, <<"alternate">>, <<"ALTERNATE">>, <<"feed\tAlternate  home">>,
          <<"stylesheet">>, <<"alternates">>}

XTypes == {<<>>, <<"">>, <<"application/rss+xml">>, <<"Application/Atom+XML">>,
           <<"application/rdf+xml; charset=utf-8">>, <<"text/xml; charset=atom">>,
           <<"application/atom+xml ;profile=rss">>, <<"application/xml">>,
           <<"application/rss+xml; x=atom">>, <<"text/html">>, <<"application/json+atom">>}

XHrefs == {<<>>, <<"">>, <<"/feed.xml">>, <<"feed/">>, <<"../rss">>, <<"https://b.io/atom">>,
           <<"http://10.0.0.1/feed">>, <<"http://a b/">>}

XTitles == {<<>>, <<"">>, <<"Blog">>}

XLinks == {Link(r, t, h, x) : r \in XRels, t \in XTypes, h \in XHrefs, x \in XTitles}

XBase == "https://a.io/ja/blog/"

XDocuments == {<<l>> : l \in XLinks} \cup Pages

InitExtract ==
    /\ fnIn \in [document : XDocuments, base : {XBase}]
    /\ fnOut = <<>> /\ fnOut2 = <<>> /\ MainIdle /\ FetchIdle

Extract ==
    /\ fnOut = <<>>
    /\ fnOut' = <<findMetaFeeds(fnIn.document, fnIn.base)>>
    /\ UNCHANGED <<fnIn, fnOut2>>
    /\ UNCHANGED <<mainVars, fetchVars>>

NextExtract == Extract

SpecExtract == InitExtract /\ [][NextExtract]_vars

(***************************************************************************)
(* SpecScan: findMetaFeedsWithStringParsing on texts made of up to         *)
(* MaxSegments link tags, among them unclosed tags and tags around the     *)
(* length limit.                                                           *)
(***************************************************************************)
MaxSegments == 3

\* n spaces.
RECURSIVE Blanks(_)
Blanks(n) ==
    IF n = 0 THEN ""
    ELSE IF n % 2 = 0 THEN Blanks(n \div 2) \o Blanks(n \div 2)
    ELSE " " \o Blanks(n - 1)

\* The text of a link tag after <link and before > , padded to n characters.
PaddedTo(attributes, n) == Blanks(n - Len(attributes)) \o attributes

SegmentText ==
    [plain |-> " rel=\"alternate\" type=\"application/rss+xml\" href=\"/feed.xml\" title=\"Blog\">\n",
     single |-> " REL='feed alternate' TYPE='application/atom+xml' HREF = '/atom.xml'></head>",
     style |-> " rel=\"stylesheet\" href=\"/s.css\">",
     unclosed |-> " rel=\"alternate\" type=\"application/rss+xml\" href=\"/rss\" ",
     long |-> PaddedTo(" rel=\"alternate\" type=\"application/rss+xml\" href=\"/long\"",
                       MAX_LINK_TAG_LENGTH + 1) \o ">",
     longest |-> PaddedTo(" rel=\"alternate\" type=\"application/rss+xml\" href=\"/longest\"",
                          MAX_LINK_TAG_LENGTH) \o ">"]

SegmentKinds == DOMAIN SegmentText

ScanParts == UNION {[1..n -> SegmentKinds] : n \in 1..MaxSegments}

LinkOpeners == <<"<link", "<LINK", "<Link", "<link">>

RECURSIVE ScanText(_, _)
ScanText(parts, i) ==
    IF i > Len(parts) THEN ""
    ELSE LinkOpeners[((i - 1) % 4) + 1] \o SegmentText[parts[i]] \o ScanText(parts, i + 1)

InitScan ==
    /\ fnIn \in {[parts |-> p, document |-> "<html><head>" \o ScanText(p, 1),
                  base |-> "https://a.io/ja/blog/"] : p \in ScanParts}
    /\ fnOut = <<>> /\ fnOut2 = <<>> /\ MainIdle /\ FetchIdle

Scan ==
    /\ fnOut = <<>>
    /\ fnOut' = <<findMetaFeedsWithStringParsing(fnIn.document, fnIn.base)>>
    /\ UNCHANGED <<fnIn, fnOut2>>
    /\ UNCHANGED <<mainVars, fetchVars>>

NextScan == Scan

SpecScan == InitScan /\ [][NextScan]_vars

(***************************************************************************)
(* SpecFetch: concurrent invocations of safeFetch, each with its own       *)
(* AbortController and timer, against a network that answers each request  *)
(* after some latency, or never.  Time passes between events only.         *)
(***************************************************************************)
FETCH_TIMEOUT_MS == 5000

\* How many invocations of safeFetch run side by side.
FetchCalls == 2

\* What the network does with a request, and after how many milliseconds.
FetchPlans ==
    {[after |-> t, outcome |-> Resp(200, <<"text/html">>, <<>>)] : t \in {1000, 5000, 6000}}
    \cup {[after |-> t, outcome |-> Resp(404, <<>>, <<>>)] : t \in {1000, 6000}}
    \cup {[after |-> 1000, outcome |-> Resp(s, <<>>, <<>>)] : s \in {204, 301}}
    \cup {[after |-> 5000, outcome |-> Resp(503, <<>>, <<>>)],
          [after |-> 1000, outcome |-> [k |-> "error", message |-> "reset"]],
          [after |-> 5000, outcome |-> [k |-> "error", message |-> "reset"]],
          [after |-> 1000, outcome |-> [k |-> "thrown"]],
          [after |-> 1000, outcome |-> [k |-> "abort"]],
          [after |-> 0, outcome |-> [k |-> "never"]]}

FetchUrl(i) == "https://a.io/" \o NatToString(i)

InitFetch ==
    /\ FnIdle
    /\ MainIdle
    /\ now = 0
    /\ ops \in [1..FetchCalls ->
                  {[plan |-> p, state |-> "idle", started |-> 0, timer |-> "none",
                    aborted |-> FALSE, sent |-> 0, result |-> <<>>] : p \in FetchPlans}]

controllerShared(i) == 1

\* const controller = new AbortController(): the controller of invocation i
controllerOf(i) == i

clearTimeoutOmitted(timer) == timer

\* clearTimeout(timeoutId)
clearTimeout(timer) == IF timer = "armed" THEN "cleared" ELSE timer

Deadline(i) == ops[i].started + FETCH_TIMEOUT_MS

AnswerTime(i) == ops[i].started + ops[i].plan.after

Answers(i) == ops[i].state = "pending" /\ ops[i].plan.outcome.k # "never"

\* safeFetch(url, options) up to the call of fetch: controller, timer, request.
CallFetch(i) ==
    /\ ops[i].state = "idle"
    /\ ops' = [ops EXCEPT ![i].state = "pending", ![i].started = now, ![i].timer = "armed",
                          ![i].sent = ops[i].sent + 1]
    /\ UNCHANGED now

\* The promise of fetch settles with the network's answer; the handler
\* clears the timer and classifies the answer.
FetchSettles(i) ==
    /\ Answers(i)
    /\ AnswerTime(i) = now
    /\ ops' = [ops EXCEPT ![i].state = "settled",
                          ![i].timer = clearTimeout(ops[i].timer),
                          ![i].result = <<safeFetch(FetchUrl(i), ops[i].plan.outcome)>>]
    /\ UNCHANGED now

\* The invocation j after the controller c has been aborted: a pending
\* fetch that carries its signal rejects with an AbortError.
Aborted(j, c) ==
    IF controllerOf(j) # c THEN ops[j]
    ELSE IF ops[j].state # "pending" THEN [ops[j] EXCEPT !.aborted = TRUE]
    ELSE [ops[j] EXCEPT !.aborted = TRUE, !.state = "settled",
                        !.timer = clearTimeout(ops[j].timer),
                        !.result = <<safeFetch(FetchUrl(j), [k |-> "abort"])>>]

\* The timer of invocation i fires: controller.abort().
TimerFires(i) ==
    /\ ops[i].timer = "armed"
    /\ Deadline(i) = now
    /\ ops' = [j \in 1..FetchCalls |->
                  IF j = i THEN [Aborted(j, controllerOf(i)) EXCEPT !.timer = "fired"]
                  ELSE Aborted(j, controllerOf(i))]
    /\ UNCHANGED now

\* The times at which something is still to happen.
EventTimes ==
    {Deadline(i) : i \in {j \in 1..FetchCalls : ops[j].timer = "armed"}}
    \cup {AnswerTime(i) : i \in {j \in 1..FetchCalls : Answers(j)}}

\* Time passes up to the next event; nothing due now is skipped.
Tick ==
    /\ EventTimes # {}
    /\ \A t \in EventTimes : t > now
    /\ now' = CHOOSE t \in EventTimes : \A u \in EventTimes : t <= u
    /\ UNCHANGED ops

NextFetch ==
    \/ \E i \in 1..FetchCalls : CallFetch(i) /\ UNCHANGED <<fnVars, mainVars>>
    \/ \E i \in 1..FetchCalls : FetchSettles(i) /\ UNCHANGED <<fnVars, mainVars>>
    \/ \E i \in 1..FetchCalls : TimerFires(i) /\ UNCHANGED <<fnVars, mainVars>>
    \/ Tick /\ UNCHANGED <<fnVars, mainVars>>

SpecFetch == InitFetch /\ [][NextFetch]_vars

(***************************************************************************)
(* Properties of validateTargetUrl, under SpecValidate.                    *)
(***************************************************************************)
VDone == fnOut # <<>>

VHttp == fnIn.scheme \in {"http://", "https://", "HTTP://"}

VParses == NewURL(VText(fnIn)).ok

VRejected(msg) ==
    /\ IsErr(fnOut[1])
    /\ fnOut[1].error = [type |-> "URL_NOT_PERMITTED", message |-> msg]

\* What the host of the input denotes, independently of its spelling.
DenotesLoopback(h) ==
    CASE h.k = "name" -> ToLowerCase(h.text) = "localhost"
      [] h.k = "v4"   -> h.o[1] = 127
      [] h.k = "v6"   ->
            /\ ParseIPv6(SubSeq(h.text, 2, Len(h.text) - 1)).ok
            /\ ParseIPv6(SubSeq(h.text, 2, Len(h.text) - 1)).pieces = <<0, 0, 0, 0, 0, 0, 0, 1>>

DenotesPrivateV4(h) ==
    /\ h.k = "v4"
    /\ \/ h.o[1] = 10
       \/ h.o[1] = 172 /\ h.o[2] \in 16..31
       \/ h.o[1] = 192 /\ h.o[2] = 168
       \/ h.o[1] = 169 /\ h.o[2] = 254

\* fc00::/7: the first seven bits of the address are 1111110.
DenotesUniqueLocal(h) ==
    /\ h.k = "v6"
    /\ ParseIPv6(SubSeq(h.text, 2, Len(h.text) - 1)).ok
    /\ ParseIPv6(SubSeq(h.text, 2, Len(h.text) - 1)).pieces[1] \div 512 = 126

\* C3: every http/https URL whose host is localhost (any letter case), in
\* 127.x, the IPv6 loopback ::1 in any spelling, or in 10.x, 172.16-31.x,
\* 192.168.x or 169.254.x is rejected with URL_NOT_PERMITTED, whatever its
\* port and path.
C3_LoopbackAndPrivateRejected ==
    (VDone /\ VHttp /\ VParses /\ (DenotesLoopback(fnIn.host) \/ DenotesPrivateV4(fnIn.host)))
        => (IsErr(fnOut[1]) /\ fnOut[1].error.type = "URL_NOT_PERMITTED")

C3_Witness ==
    /\ VDone
    /\ fnIn.scheme = "https://"
    /\ fnIn.host.text = "2852039166"
    /\ fnIn.port = ":8443"
    /\ VRejected(MsgPrivate)

\* C4: every URL whose host is an IPv6 literal of fc00::/7 (first byte fc or
\* fd) is rejected with URL_NOT_PERMITTED.
C4_UniqueLocalRejected ==
    (VDone /\ VHttp /\ VParses /\ DenotesUniqueLocal(fnIn.host))
        => (IsErr(fnOut[1]) /\ fnOut[1].error.type = "URL_NOT_PERMITTED")

\* The explicit port of the input, as a number; -1 when it has none.
VExplicitPort ==
    IF Len(fnIn.port) <= 1 THEN -1 ELSE PortValue(SubSeq(fnIn.port, 2, Len(fnIn.port)), 0)

VHostPermitted ==
    /\ ~isLoopbackHost(Hostname(NewURL(VText(fnIn))))
    /\ ~privateRanges(Hostname(NewURL(VText(fnIn))))

\* C5: with an allowed scheme and a permitted hostname, validation succeeds
\* iff the URL has no explicit port or its port is 80, 443, 8080 or 8443;
\* every other explicit port gives URL_NOT_PERMITTED with the port message.
C5_PortPolicy ==
    (VDone /\ VHttp /\ VParses /\ VHostPermitted)
        => IF VExplicitPort \in {-1, 80, 443, 8080, 8443}
           THEN IsOk(fnOut[1])
           ELSE VRejected(MsgPort)

C5_Witness ==
    /\ VDone
    /\ fnIn.scheme = "http://"
    /\ fnIn.host.text = "example.com"
    /\ fnIn.port = ":8081"
    /\ VRejected(MsgPort)

\* C6: the rules apply in the order parse, scheme, loopback, private range,
\* port, and the first failing rule gives the error: an unparsable text
\* gives INVALID_URL_FORMAT; a scheme other than http/https the protocol
\* message even with a forbidden host or port; a loopback or private host
\* the localhost or private-IP message, never the port message.
C6_FirstFailingRule ==
    VDone =>
        IF ~VParses
        THEN IsErr(fnOut[1]) /\ fnOut[1].error = [type |-> "INVALID_URL_FORMAT",
                                                  message |-> MsgInvalidUrl]
        ELSE IF Protocol(NewURL(VText(fnIn))) \notin {"http:", "https:"}
             THEN VRejected(MsgProtocol)
        ELSE IF DenotesLoopback(fnIn.host) THEN VRejected(MsgLocalhost)
        ELSE IF DenotesPrivateV4(fnIn.host) \/ DenotesUniqueLocal(fnIn.host)
             THEN VRejected(MsgPrivate)
        ELSE TRUE

(***************************************************************************)
(* Properties of normalizeUrl, under SpecNormalize.                        *)
(***************************************************************************)
NInvalid(r) == IsErr(r) /\ r.error = [type |-> "INVALID_URL_FORMAT", message |-> MsgInvalidUrl]

NBlank(x) == \A i \in 1..Len(x) : Ch(x, i) \in {" ", "\t"}

NHasSchemeMark(x) == \E i \in 1..(Len(x) - 2) : SubSeq(x, i, i + 2) = "://"

NRejectedShape(x) ==
    \/ NBlank(x)
    \/ NHasSchemeMark(x) /\ ~StartsWith(x, "http://") /\ ~StartsWith(x, "https://")
    \/ x \in {"http:/", "https:/"}
    \/ EndsWith(x, "://")

NExpected(x) == IF StartsWith(x, "http") THEN x ELSE "https://" \o x

\* C7: normalize fails with INVALID_URL_FORMAT on an empty or blank input,
\* on one that contains :// without starting with http:// or https://, on
\* http:/ and https:/ and on one ending in ://; otherwise it returns the
\* input unchanged when it begins with http, and https:// followed by the
\* input when it does not, provided that text parses as an absolute URL
\* (INVALID_URL_FORMAT when it does not).
C7_NormalizeContract ==
    fnOut # <<>> =>
        IF NRejectedShape(fnIn) \/ ~NewURL(NExpected(fnIn)).ok
        THEN NInvalid(fnOut[1])
        ELSE fnOut[1] = Ok(NExpected(fnIn))

C7_Witness ==
    /\ fnOut # <<>>
    /\ fnIn = "http://example.com://"
    /\ NInvalid(fnOut[1])

\* C8: normalize is idempotent on its successes: when normalize(x) gives y,
\* normalize(y) succeeds and gives y again.
C8_Idempotent ==
    fnOut2 # <<>> => (IsOk(fnOut2[1]) /\ fnOut2[1].value = fnOut[1].value)

C8_Witness ==
    /\ fnOut2 # <<>>
    /\ fnIn = "example.com"
    /\ fnOut[1] = Ok("https://example.com")
    /\ fnOut2[1] = Ok("https://example.com")

(***************************************************************************)
(* Properties of discoverFeeds, tryCommonPaths and handleFeedSearch, under *)
(* Spec.                                                                   *)
(***************************************************************************)
\* The step calls tryCommonPaths: for the first time, or from the fallback.
CallsProber ==
    /\ call.entry # "stubbed"
    /\ (baseUrl = "" /\ baseUrl' # "") \/ (pc = "fetching" /\ pc' = "fallback")

\* The requests the step hands to fetch.
Issued == {i \in 1..Len(net') : i > Len(net)}

\* The step hands a HEAD of url to fetch for the candidate path.
ProbedAt(path, url) ==
    \E i \in Issued : net'[i].method = "HEAD" /\ net'[i].path = path /\ net'[i].url = url

\* The candidate resolves against the base and the validator accepts it.
Survives(path) ==
    /\ NewURLWithBase(path, baseUrl').ok
    /\ IsOk(validateTargetUrl(Href(NewURLWithBase(path, baseUrl'))))

\* C1: every URL handed to an outbound request - the GET of the target and
\* each HEAD of a candidate - is one the validator accepts; a call of
\* discoverFeeds whose target fails validation sends nothing; a candidate
\* whose resolved URL fails validation is not fetched and gives no error,
\* and every other candidate is probed at its resolved URL.
C1_OnlyValidatedUrlsFetched ==
    [][ /\ Len(net') >= Len(net)
        /\ \A i \in 1..Len(net) : net'[i].url = net[i].url /\ net'[i].method = net[i].method
        /\ \A i \in Issued : IsOk(validateTargetUrl(net'[i].url))
        /\ (call.entry # "prober" /\ ~IsOk(validateTargetUrl(targetUrl'))) => net' = <<>>
        /\ CallsProber =>
              \A k \in 1..Len(commonPaths) :
                  IF Survives(commonPaths[k])
                  THEN ProbedAt(commonPaths[k], Href(NewURLWithBase(commonPaths[k], baseUrl')))
                  ELSE \A i \in Issued : net'[i].path # commonPaths[k]
        /\ (call.entry = "prober" /\ result' # <<>>) => IsOk(result'[1])
      ]_vars

\* A request to the handler for a.io: the GET of the page and the fourteen
\* probes are in flight.
C1_Witness ==
    /\ call.entry = "handler"
    /\ pc = "fetching"
    /\ Len(net) = 15
    /\ \A i \in 1..15 : net[i].state = "inflight"
    /\ net[1].method = "GET" /\ net[1].url = "https://a.io/"
    /\ net[2].method = "HEAD" /\ net[2].url = "https://a.io/feed"
    /\ net[9].method = "HEAD" /\ net[9].url = "https://a.io/feed/"

\* The stages of the handler before discoverFeeds, spelled out one by one.
SubmittedText == call.request.json[1].url[1].s

StageError ==
    IF call.request.json = <<>>
    THEN <<[type |-> "INVALID_REQUEST_BODY", message |-> "Invalid JSON in request body"]>>
    ELSE IF IsErr(parseRequestBody(call.request.json[1]))
         THEN <<parseRequestBody(call.request.json[1]).error>>
    ELSE IF IsErr(normalizeUrl(SubmittedText)) THEN <<normalizeUrl(SubmittedText).error>>
    ELSE IF IsErr(validateTargetUrl(normalizeUrl(SubmittedText).value))
         THEN <<validateTargetUrl(normalizeUrl(SubmittedText).value).error>>
    ELSE <<>>

\* C2: in the request handler, when body parsing, normalization or
\* validation of the submitted URL fails, no outbound request is ever
\* issued: discoverFeeds is not started, and the response is the error
\* response of the failing stage.
C2_NoFetchAfterFailedStage ==
    (call.entry = "handler" /\ StageError # <<>>) =>
        /\ net = <<>>
        /\ pc \in {"idle", "responded"}
        /\ result = <<>>
        /\ pc = "responded" => response = <<createErrorResponse(StageError[1])>>

C2_Witness ==
    /\ call.entry = "handler"
    /\ call.request.json # <<>>
    /\ call.request.json[1] = [t |-> "object", url |-> <<[t |-> "string", s |-> "localhost"]>>]
    /\ pc = "responded"
    /\ net = <<>>
    /\ response = <<[status |-> 400,
                     body |-> [success |-> FALSE,
                               error |-> "Invalid request. Please check your input and try again."]]>>

RECURSIVE KeepFirst(_, _)
\* The first k entries of list without those whose url occurred earlier.
KeepFirst(list, k) ==
    IF k = 0 THEN <<>>
    ELSE KeepFirst(list, k - 1)
         \o (IF \E j \in 1..(k - 1) : list[j].url = list[k].url THEN <<>> ELSE <<list[k]>>)

\* discoverFeeds returned from the map callback of the combined branches.
Merged ==
    /\ result # <<>> /\ html # <<>> /\ html.k = "settled"
    /\ IsOk(html.result) /\ IsOk(ProbeBranch(1))

\* C9: when both branches complete, the returned list is the meta-tag
\* results in their order followed by the common-path results in their
\* order, without the entries whose url occurred earlier; a URL found by
\* both methods appears once, as the meta-tag entry.
C9_MergeOrder ==
    Merged =>
        /\ result[1] = Ok(KeepFirst(html.result.value \o ProbeBranch(1).value,
                                    Len(html.result.value) + Len(ProbeBranch(1).value)))
        /\ \A m \in 1..Len(html.result.value) : \A c \in 1..Len(ProbeBranch(1).value) :
              html.result.value[m].url = ProbeBranch(1).value[c].url =>
                  \A r \in 1..Len(result[1].value) :
                      result[1].value[r].url = ProbeBranch(1).value[c].url =>
                          result[1].value[r].discoveryMethod = "meta-tag"

C9_Witness ==
    /\ Merged
    /\ call.entry = "discover"
    /\ \E c \in 1..Len(commonFeeds(1)) : commonFeeds(1)[c].url = "https://a.io/feed.xml"
    /\ result[1].value =
          << [title |-> "Blog", url |-> "https://a.io/feed.xml", type |-> "RSS",
              discoveryMethod |-> "meta-tag"],
             [title |-> "RSS/Atom feed", url |-> "https://b.io/atom", type |-> "Atom",
              discoveryMethod |-> "meta-tag"],
             [title |-> "/atom.xml feed", url |-> "https://a.io/atom.xml", type |-> "Atom",
              discoveryMethod |-> "common-path"] >>

\* C10: every list discoverFeeds returns is deduplicated by url, on the
\* merged path and on the common-path-only fallback alike.
C10_ReturnedListDeduplicated ==
    (call.entry # "prober" /\ result # <<>> /\ IsOk(result[1])) =>
        \A i, j \in 1..Len(result[1].value) :
            result[1].value[i].url = result[1].value[j].url => i = j

\* The HTML branch of discoverFeeds has failed.
HtmlFailed == html # <<>> /\ html.k = "settled" /\ IsErr(html.result)

\* C11: if the HTML branch fails (transport error, timeout, non-2xx status
\* or undecodable body) while probing succeeds, discoverFeeds returns a
\* success whose list is the common-path results only; the HTML failure is
\* not reported and no meta-tag entry is produced.
C11_FallbackToProbeResults ==
    (call.entry # "prober" /\ HtmlFailed /\ IsOk(ProbeBranch(1)) /\ result # <<>>) =>
        /\ html.result.error.type \in
              {"NETWORK_ERROR", "TIMEOUT_ERROR", "FETCH_FAILED", "PARSING_ERROR"}
        /\ result[1] = Ok(ProbeBranch(1).value)
        /\ \A r \in 1..Len(result[1].value) :
              result[1].value[r].discoveryMethod = "common-path"
        /\ response # <<>> => (response[1].status = 200 /\ response[1].body.success)

C11_Witness ==
    /\ call.entry = "discover"
    /\ call.url = "https://a.io/ja/blog/"
    /\ HtmlFailed
    /\ html.result.error.type = "FETCH_FAILED"
    /\ result # <<>>
    /\ IsOk(result[1])
    /\ Len(result[1].value) = 5
    /\ result[1].value[1].url = "https://a.io/feed.xml"
    /\ result[1].value[3].url = "https://a.io/ja/blog/feed/"

C13_EachFetchOnce ==
    call.entry \in {"discover", "handler"} =>
        \A i, j \in 1..Len(net) :
            (net[i].method = net[j].method /\ net[i].url = net[j].url) => i = j

\* The answer to a HEAD of url is a 2xx response whose content-type,
\* compared without regard to letter case, begins with a feed type.
FeedTypePrefixes ==
    {"application/rss+xml", "application/atom+xml", "application/rdf+xml", "text/xml",
     "application/xml"}

BeginsWithFeedType(text) ==
    \E p \in FeedTypePrefixes :
        Len(text) >= Len(p) /\ ToLowerCase(SubSeq(text, 1, Len(p))) = p

Delivers(url) ==
    /\ HeadOutcome(url).k = "response"
    /\ HeadOutcome(url).status >= 200 /\ HeadOutcome(url).status < 300
    /\ HeadOutcome(url).contentType # <<>>
    /\ BeginsWithFeedType(HeadOutcome(url).contentType[1])

UrlsOf(list) == [i \in 1..Len(list) |-> list[i].url]

\* C14: tryCommonPaths never fails as a whole: for every base and every
\* combination of per-candidate outcomes it returns a success; a failing
\* candidate contributes no entry and the other candidates' results are
\* returned, in candidate order.
C14_ProbeNeverFails ==
    /\ (call.entry = "prober" /\ result # <<>>) =>
          /\ IsOk(result[1])
          /\ UrlsOf(result[1].value) = SelectSeq(UrlsOf(net), Delivers)
    /\ (call.entry \in {"discover", "handler"} /\ baseUrl # "" /\ RoundSettled(1)) =>
          UrlsOf(ProbeBranch(1).value) = SelectSeq(UrlsOf(SubSeq(net, 2, 15)), Delivers)

C14_Witness ==
    /\ call.entry = "prober"
    /\ call.url = "https://a.io/"
    /\ Len(net) = 14
    /\ HeadOutcome(net[2].url).k = "error"
    /\ HeadOutcome(net[7].url).k = "abort"
    /\ HeadOutcome(net[1].url).status = 301
    /\ result # <<>>
    /\ IsOk(result[1])
    /\ UrlsOf(result[1].value) =
          <<"https://a.io/feed.xml", "https://a.io/atom.xml", "https://a.io/feed.xml",
            "https://a.io/atom.xml">>

\* C15: a probed candidate yields a FeedResult iff the HEAD succeeds and
\* the content-type, compared case-insensitively, begins with a feed type;
\* the result has the candidate's validated url, the title "<path> feed",
\* the method common-path, and the type Atom iff the content-type contains
\* atom in any letter case, else RSS.
C15_ProbeResult ==
    \A i \in 1..Len(net) :
        (net[i].method = "HEAD" /\ net[i].state = "settled") =>
            net[i].value =
                IF Delivers(net[i].url)
                THEN <<[url |-> net[i].url,
                        title |-> net[i].path \o " feed",
                        type |-> IF Includes(ToLowerCase(HeadOutcome(net[i].url).contentType[1]),
                                             "atom")
                                 THEN "Atom" ELSE "RSS",
                        discoveryMethod |-> "common-path"]>>
                ELSE <<>>

\* C16: the candidates are the root-absolute paths and the path-relative
\* variants resolved against the base's own path; for a base under a
\* subpath where only <base>feed/ answers with a feed content-type,
\* tryCommonPaths returns exactly one FeedResult, with that URL, type RSS
\* and title "feed/ feed".
C16_SubpathCandidates ==
    (call.entry = "prober" /\ call.url = "https://a.io/ja/blog/" /\ pc # "probe") =>
        /\ UrlsOf(net) =
              <<"https://a.io/feed", "https://a.io/feeds", "https://a.io/rss",
                "https://a.io/rss.xml", "https://a.io/feed.xml", "https://a.io/atom.xml",
                "https://a.io/index.xml",
                "https://a.io/ja/blog/feed/", "https://a.io/ja/blog/feeds/",
                "https://a.io/ja/blog/rss/", "https://a.io/ja/blog/feed.xml",
                "https://a.io/ja/blog/rss.xml", "https://a.io/ja/blog/atom.xml",
                "https://a.io/ja/blog/index.xml">>
        /\ (site.head = BlogFeedOnly /\ result # <<>>) =>
              result[1] = Ok(<<[url |-> "https://a.io/ja/blog/feed/", title |-> "feed/ feed",
                                type |-> "RSS", discoveryMethod |-> "common-path"]>>)

C16_Witness ==
    /\ call.entry = "prober"
    /\ call.url = "https://a.io/ja/blog/"
    /\ site.head = BlogFeedOnly
    /\ Len(net) = 14
    /\ result # <<>>
    /\ IsOk(result[1])
    /\ Len(result[1].value) = 1
    /\ result[1].value[1].title = "feed/ feed"

\* C17: in a call of discoverFeeds the GET and all HEAD probes are issued
\* before the result of any of them is consumed: no request is started
\* after another request of the call has completed.
C17_AllIssuedBeforeAnyCompletes ==
    [][ (call.entry \in {"discover", "handler"} /\ Len(net') > Len(net)) =>
            \A i \in 1..Len(net) : net[i].state = "inflight" ]_vars

(***************************************************************************)
(* Properties of safeFetch, under SpecFetch.                               *)
(***************************************************************************)
FetchSettled(i) == ops[i].state = "settled"

\* What ended the request of invocation i: its own timer, or the network.
FetchCause(i) == IF ops[i].timer = "fired" THEN [k |-> "abort"] ELSE ops[i].plan.outcome

FetchError(i, type) ==
    /\ ~ops[i].result[1].ok
    /\ ops[i].result[1].error.type = type

\* The results an invocation can end with when it runs alone: the
\* classified answer of the network when it comes before the deadline, the
\* timeout when it comes later or never, either one when both fall together.
AloneResults(i) ==
    (IF ops[i].plan.outcome.k # "never" /\ ops[i].plan.after <= FETCH_TIMEOUT_MS
     THEN {safeFetch(FetchUrl(i), ops[i].plan.outcome)}
     ELSE {})
    \cup (IF ops[i].plan.outcome.k = "never" \/ ops[i].plan.after >= FETCH_TIMEOUT_MS
          THEN {Err("TIMEOUT_ERROR", "Request timeout for " \o FetchUrl(i))}
          ELSE {})

\* The step is an event of invocation i itself: its call, the answer to its
\* request, or its timer.
OwnEvent(i) ==
    \/ ops[i].state = "idle"
    \/ Answers(i) /\ AnswerTime(i) = now
    \/ ops[i].timer = "armed" /\ Deadline(i) = now

\* C18: concurrent network operations are isolated.  Each has its own timer
\* and abort handle: in every interleaving, an invocation changes only by
\* its own call, its own answer or its own timer, its controller is aborted
\* only by its own timer, and it ends with a result it could have ended
\* with alone, whatever its siblings' timeouts and failures.
C18_SiblingsIsolated ==
    /\ [](\A i \in DOMAIN ops :
             /\ ops[i].aborted => ops[i].timer = "fired"
             /\ FetchSettled(i) => ops[i].result[1] \in AloneResults(i))
    /\ [][\A i \in DOMAIN ops : ops'[i] # ops[i] =>
              /\ OwnEvent(i)
              /\ \A j \in DOMAIN ops \ {i} : ops'[j] = ops[j]]_vars

\* One invocation, started first, has timed out; its sibling, started at
\* that moment, was still pending then and later got its response.
C18_Witness ==
    \E i, j \in DOMAIN ops :
        /\ ops[i].timer = "fired"
        /\ FetchError(i, "TIMEOUT_ERROR")
        /\ ops[j].started = ops[i].started + FETCH_TIMEOUT_MS
        /\ ~ops[j].aborted
        /\ ops[j].result = <<Ok(Resp(200, <<"text/html">>, <<>>))>>

\* C19: safeFetch turns every outcome of its one request into exactly one
\* result: a response with a status from 200 to 299 gives success with that
\* response, any other response gives FETCH_FAILED with the status, an
\* abort gives TIMEOUT_ERROR, a rejection with an Error or with any other
\* value gives NETWORK_ERROR; and each invocation calls fetch exactly once.
C19_OutcomeClassified ==
    \A i \in DOMAIN ops :
        /\ ops[i].sent = IF ops[i].state = "idle" THEN 0 ELSE 1
        /\ Len(ops[i].result) = IF FetchSettled(i) THEN 1 ELSE 0
        /\ FetchSettled(i) =>
              LET o == FetchCause(i) IN
              /\ ops[i].result[1].ok \in BOOLEAN
              /\ (o.k = "response" /\ o.status \in 200..299) =>
                    ops[i].result[1] = [ok |-> TRUE, value |-> o]
              /\ (o.k = "response" /\ o.status \notin 200..299) =>
                    /\ FetchError(i, "FETCH_FAILED")
                    /\ ops[i].result[1].error.status = o.status
              /\ o.k = "abort" => FetchError(i, "TIMEOUT_ERROR")
              /\ o.k \in {"error", "thrown"} => FetchError(i, "NETWORK_ERROR")

\* One invocation got a 404 and failed with FETCH_FAILED, while the other
\* was rejected with a value that is no Error.
C19_Witness ==
    \E i, j \in DOMAIN ops :
          /\ FetchSettled(i) /\ FetchSettled(j)
          /\ ops[i].plan.outcome = Resp(404, <<>>, <<>>)
          /\ FetchError(i, "FETCH_FAILED")
          /\ ops[i].result[1].error.status = 404
          /\ ops[j].plan.outcome.k = "thrown"
          /\ ops[j].result[1].error.message = "Unknown network error"


\* C20: safeFetch enforces its timeout.  An invocation is never pending
\* later than FETCH_TIMEOUT_MS after its start; its timer is armed exactly
\* while it is pending; when the timer fires the request is aborted and the
\* invocation fails with TIMEOUT_ERROR; and when the request settles first,
\* by a response or a transport error, the timer is cleared and never fires.
C20_TimeoutEnforced ==
    \A i \in DOMAIN ops :
        /\ ops[i].state = "pending" => now <= ops[i].started + FETCH_TIMEOUT_MS
        /\ ops[i].timer = "armed" <=> ops[i].state = "pending"
        /\ ops[i].timer = "fired" =>
              /\ FetchSettled(i)
              /\ ops[i].aborted
              /\ ops[i].plan.outcome.k = "never" \/ ops[i].plan.after >= FETCH_TIMEOUT_MS
              /\ ops[i].result = <<Err("TIMEOUT_ERROR", "Request timeout for " \o FetchUrl(i))>>
        /\ (FetchSettled(i) /\ ops[i].timer # "fired") =>
              /\ ops[i].timer = "cleared"
              /\ ~ops[i].aborted
              /\ ops[i].plan.after <= FETCH_TIMEOUT_MS
              /\ ops[i].result = <<safeFetch(FetchUrl(i), ops[i].plan.outcome)>>

\* After the timeout has passed, one invocation whose response would have
\* come at 6000 ms has been aborted by its timer, and another one, answered
\* at 1000 ms, keeps its cleared timer.
C20_Witness ==
    \E i, j \in DOMAIN ops :
        /\ ops[i].plan = [after |-> 6000, outcome |-> Resp(200, <<"text/html">>, <<>>)]
        /\ ops[i].timer = "fired"
        /\ FetchError(i, "TIMEOUT_ERROR")
        /\ ops[j].plan.after = 1000
        /\ ops[j].started = ops[i].started
        /\ ops[j].timer = "cleared"
        /\ ops[j].result[1].ok
        /\ now >= ops[j].started + FETCH_TIMEOUT_MS


HandlerCall == call.entry = "handler"

HandlerBody == call.request.json[1]

BadRequest ==
    [status |-> 400,
     body |-> [success |-> FALSE,
               error |-> "Invalid request. Please check your input and try again."]]

ErrorOfType(r, type) == IsErr(r) /\ r.error.type = type

\* What the stages before discoverFeeds make of the request.
HandlerStages(v) ==
    /\ (\/ call.request.json = <<>>
        \/ HandlerBody.t \in {"null", "number", "string"}) =>
            ErrorOfType(v, "INVALID_REQUEST_BODY")
    /\ (/\ call.request.json # <<>>
        /\ HandlerBody.t = "object"
        /\ \/ HandlerBody.url = <<>>
           \/ HandlerBody.url[1].t # "string"
           \/ HandlerBody.url[1].s \in {"", "  "}) =>
            ErrorOfType(v, "MISSING_URL")
    /\ (/\ call.request.json # <<>>
        /\ HandlerBody = [t |-> "object", url |-> <<[t |-> "string", s |-> "localhost"]>>]) =>
            /\ normalizeUrl("localhost") = Ok("https://localhost")
            /\ ErrorOfType(v, "URL_NOT_PERMITTED")
    /\ (call.request.json # <<>> /\ IsOk(parseRequestBody(HandlerBody))) =>
            IF IsErr(normalizeUrl(SubmittedText)) THEN v = normalizeUrl(SubmittedText)
            ELSE v = validateTargetUrl(normalizeUrl(SubmittedText).value)

\* C24: the handler runs body parsing, normalization, validation and
\* discovery in that order and answers with the error of the first stage
\* that fails: INVALID_REQUEST_BODY for bodies that are no objects,
\* MISSING_URL for a missing, non-string or empty url, and for "localhost"
\* the normalized https://localhost is rejected with URL_NOT_PERMITTED and
\* answered with 400 and the generic message.  When every stage succeeds
\* the response is 200 with searchedUrl the validated URL and totalFound
\* the length of feeds.
C24_HandlerPipeline ==
    HandlerCall =>
        /\ HandlerStages(validatedUrl(call.request))
        /\ IsErr(validatedUrl(call.request)) =>
              /\ net = <<>> /\ result = <<>>
              /\ pc = "responded" => response = <<BadRequest>>
        /\ IsOk(validatedUrl(call.request)) =>
              /\ pc # "idle" => targetUrl = Href(validatedUrl(call.request).value)
              /\ net # <<>> => net[1].url = targetUrl
              /\ pc = "responded" =>
                    /\ result # <<>>
                    /\ IsOk(result[1]) =>
                          response = <<[status |-> 200,
                                        body |-> [success |-> TRUE,
                                                  searchedUrl |-> targetUrl,
                                                  totalFound |-> Len(result[1].value),
                                                  feeds |-> result[1].value]]>>
                    /\ IsErr(result[1]) =>
                          response = <<createErrorResponse(result[1].error)>>

\* The bare name a.io was completed to https://a.io/, and the answer counts
\* the five feeds found there.
C24_Witness ==
    /\ HandlerCall
    /\ call.request.json = <<[t |-> "object", url |-> <<[t |-> "string", s |-> "a.io"]>>]>>
    /\ pc = "responded"
    /\ response[1].status = 200
    /\ response[1].body.searchedUrl = "https://a.io/"
    /\ response[1].body.totalFound = 5
    /\ Len(response[1].body.feeds) = 5

DiscoverCall == call.entry \in {"discover", "stubbed", "handler"}

\* The call has ended: discoverFeeds has its result, or the handler has
\* answered (at once when an earlier stage failed).
CallEnded ==
    IF call.entry = "handler" THEN pc = "responded" /\ response # <<>>
    ELSE pc = "settled" /\ result # <<>>

BranchesCompleted == html.k = "settled" /\ RoundSettled(1)

\* C25: a discover call goes from validation to the two parallel branches,
\* then to the merge, and ends.  No request is issued unless validation has
\* succeeded; a result is produced from the parallel phase only after the
\* GET branch and every probe of the round have completed; and when every
\* network operation eventually responds, fails or times out, the call
\* eventually ends with a success or a failure.
C25_DiscoverLifecycle ==
    /\ [](DiscoverCall =>
             /\ pc \in {"idle", "discover"} => (net = <<>> /\ result = <<>>)
             /\ net # <<>> => IsOk(validateTargetUrl(targetUrl)))
    /\ [][(DiscoverCall /\ pc = "fetching" /\ pc' # "fetching") => BranchesCompleted]_vars
    /\ [][(DiscoverCall /\ result = <<>> /\ result' # <<>>) =>
              (pc' = "settled" /\ \A i \in 1..Len(net) : net[i].state = "settled")]_vars
    /\ (DiscoverCall => <>CallEnded)

\* A call has ended with the merged list, every one of its fifteen
\* requests completed.
C25_Witness ==
    /\ call = [entry |-> "discover", url |-> "https://a.io/"]
    /\ pc = "settled"
    /\ IsOk(result[1])
    /\ IsOk(html.result)
    /\ Len(net) = 15
    /\ \A i \in 1..15 : net[i].state = "settled"

(***************************************************************************)
(* Properties of the request built by safeFetch, under SpecRequest.        *)
(***************************************************************************)
HeaderValue(obj, name) == obj[CHOOSE i \in 1..Len(obj) : obj[i].name = name].value

CallerHeaders == optionsHeaders(fnIn)

CarriesStatus(error, n) == "status" \in DOMAIN error /\ error.status = n

GenericMessages ==
    {"Invalid request. Please check your input and try again.",
     "Unable to access the requested URL. Please try again later.",
     "Unable to analyze the website content. Please try a different URL.",
     "An unexpected error occurred. Please try again later."}

\* C23: the error text of a failure response depends on the error's type
\* alone: it is one of the fixed generic messages, it is the text any other
\* message of the same type is answered with, the body holds nothing but
\* that text, the success flag and the correlation id, and the internal
\* message goes to the log line, which carries the correlation id.
C23_MessageByTypeOnly ==
    fnOut # <<>> =>
        /\ fnOut[1].response.body.error \in GenericMessages
        /\ \A m \in EMessages :
              createErrorResponseWithId([fnIn EXCEPT !.message = m],
                                        fnOut[1].response.body.errorId).response.body
                  = fnOut[1].response.body
        /\ DOMAIN fnOut[1].response.body = {"success", "error", "errorId"}
        /\ ~Includes(fnOut[1].response.body.error, fnIn.message)
        /\ Includes(fnOut[1].log, "Details: " \o fnIn.message)
        /\ StartsWith(fnOut[1].log, "[" \o fnOut[1].response.body.errorId \o "] ")

\* A rejected private address: the response names no host, the log does.
C23_Witness ==
    /\ fnOut # <<>>
    /\ fnIn = [type |-> "NETWORK_ERROR", message |-> "Network error: connect 10.0.0.7:8080"]
    /\ fnOut[1].response.body =
          [success |-> FALSE,
           error |-> "Unable to access the requested URL. Please try again later.",
           errorId |-> "k3j9x2m1q"]
    /\ fnOut[1].log =
          "[k3j9x2m1q] Error type: NETWORK_ERROR, Details: Network error: connect 10.0.0.7:8080"


(***************************************************************************)
(* Properties of findMetaFeeds, under SpecExtract.  What the claims expect *)
(* is written out for the attribute values of the documents, value by      *)
(* value.                                                                  *)
(***************************************************************************)
\* The rel values that contain the token alternate, in any case.
XAlternateRels == {"alternate", "ALTERNATE", "feed\tAlternate  home", "feed\tALTERNATE"}

\* The type values and the MIME type each one names: lowercased, parameters
\* removed.
XMimeOf ==
    ("application/rss+xml" :> "application/rss+xml")
    @@ ("Application/Atom+XML" :> "application/atom+xml")
    @@ ("application/rdf+xml; charset=utf-8" :> "application/rdf+xml")
    @@ ("text/xml; charset=atom" :> "text/xml")
    @@ ("application/atom+xml ;profile=rss" :> "application/atom+xml")
    @@ ("application/xml" :> "application/xml")
    @@ ("application/rss+xml; x=atom" :> "application/rss+xml")
    @@ ("text/html" :> "text/html")
    @@ ("application/json+atom" :> "application/json+atom")
    @@ ("Application/Atom+XML; charset=utf-8" :> "application/atom+xml")
    @@ ("text/css" :> "text/css")
    @@ ("application/atom+xml" :> "application/atom+xml")
    @@ ("text/xml" :> "text/xml")

XFeedMimes == {"application/rss+xml", "application/atom+xml", "application/rdf+xml", "text/xml",
               "application/xml"}

\* The href values that resolve against the base, and what they resolve to.
XResolved ==
    ("/feed.xml" :> "https://a.io/feed.xml")
    @@ ("feed.xml" :> "https://a.io/ja/blog/feed.xml")
    @@ ("feed/" :> "https://a.io/ja/blog/feed/")
    @@ ("../rss" :> "https://a.io/ja/rss")
    @@ ("/rss" :> "https://a.io/rss")
    @@ ("/en/" :> "https://a.io/en/")
    @@ ("/s.css" :> "https://a.io/s.css")
    @@ ("/index.xml" :> "https://a.io/index.xml")
    @@ ("/atom.xml" :> "https://a.io/atom.xml")
    @@ ("https://b.io/atom" :> "https://b.io/atom")
    @@ ("http://10.0.0.1/feed" :> "http://10.0.0.1/feed")

XAccepted(link) ==
    /\ link.rel # <<>> /\ link.rel[1] \in XAlternateRels
    /\ link.type # <<>> /\ link.type[1] # ""
    /\ XMimeOf[link.type[1]] \in XFeedMimes
    /\ link.href # <<>> /\ link.href[1] \in DOMAIN XResolved

XAcceptedLinks == SelectSeq(fnIn.document, XAccepted)

\* C26: in the primary path a link element yields a result exactly when
\* its rel, split on whitespace, contains alternate in any case, its type,
\* lowercased and without parameters, is one of the five feed MIME types,
\* its href is not empty and resolves against the base.  The result has
\* the resolved URL, the title attribute or "RSS/Atom feed" when that is
\* absent or empty, and discoveryMethod meta-tag; results keep document
\* order.
C26_PrimaryPathCandidates ==
    fnOut # <<>> =>
        /\ Len(fnOut[1]) = Len(XAcceptedLinks)
        /\ \A i \in 1..Len(XAcceptedLinks) :
              /\ fnOut[1][i].url = XResolved[XAcceptedLinks[i].href[1]]
              /\ fnOut[1][i].title =
                    (IF XAcceptedLinks[i].title \in {<<>>, <<"">>} THEN "RSS/Atom feed"
                     ELSE XAcceptedLinks[i].title[1])
              /\ fnOut[1][i].discoveryMethod = "meta-tag"
              /\ fnOut[1][i].type \in {"RSS", "Atom"}

\* The page with eight link elements gives its three feeds in document
\* order, the first one under the default title.
C26_Witness ==
    /\ fnOut # <<>>
    /\ fnIn.document = PageMixed
    /\ Len(fnOut[1]) = 4
    /\ fnOut[1][1].url = "https://a.io/ja/blog/feed/"
    /\ fnOut[1][1].title = "RSS/Atom feed"
    /\ fnOut[1][2].url = "http://10.0.0.1/feed"
    /\ fnOut[1][3].url = "https://a.io/index.xml"
    /\ fnOut[1][4].title = "Typed"

\* C27: the type of every result is Atom exactly when the MIME type of the
\* element, its type value without parameters and in lower case, contains
\* atom, and RSS otherwise: parameters never change the type, and the
\* generic XML types give RSS.
C27_TypeFromMimeOnly ==
    fnOut # <<>> =>
        \A i \in 1..Len(fnOut[1]) :
            i <= Len(XAcceptedLinks) =>
                fnOut[1][i].type =
                    (IF Includes(XMimeOf[XAcceptedLinks[i].type[1]], "atom") THEN "Atom"
                     ELSE "RSS")


(***************************************************************************)
(* Properties of findMetaFeedsWithStringParsing, under SpecScan.           *)
(***************************************************************************)
\* The segments whose first > is missing or has more than 1000 characters
\* before it.
ScanSkipped == {"unclosed", "long"}

\* The URL each well-formed feed tag of the texts stands for.
ScanUrlOf ==
    [plain |-> "https://a.io/feed.xml", single |-> "https://a.io/atom.xml",
     longest |-> "https://a.io/longest"]

ScanFound == {fnOut[1][i].url : i \in 1..Len(fnOut[1])}

\* C28: in the string scan a segment after <link gives no result when it
\* has no > at all or when more than 1000 characters precede its first > ;
\* the segment is skipped and the scan goes on, so the well-formed feed
\* tags of the text, the later ones included, are all found.
C28_OverlongTagSkipped ==
    fnOut # <<>> =>
        /\ \A i \in 1..Len(fnIn.parts) :
              fnIn.parts[i] \in ScanSkipped =>
                  /\ "https://a.io/rss" \notin ScanFound
                  /\ "https://a.io/long" \notin ScanFound
        /\ \A i \in 1..Len(fnIn.parts) :
              fnIn.parts[i] \in DOMAIN ScanUrlOf => ScanUrlOf[fnIn.parts[i]] \in ScanFound
        /\ Len(fnOut[1]) = Cardinality({fnIn.parts[i] : i \in 1..Len(fnIn.parts)}
                                       \cap DOMAIN ScanUrlOf)

\* A text whose first tag is too long and whose second tag is never closed
\* still gives the feed of its third tag.
C28_Witness ==
    /\ fnOut # <<>>
    /\ fnIn.parts = <<"long", "unclosed", "plain">>
    /\ Len(fnOut[1]) = 1
    /\ fnOut[1][1].url = "https://a.io/feed.xml"
    /\ fnOut[1][1].title = "Blog"


(***************************************************************************)
(* Properties of a whole call with the real prober, under Spec.            *)
(***************************************************************************)
\* The call reaches discoverFeeds with a target that validation accepts.
ValidationPassed ==
    \/ call.entry = "discover" /\ IsOk(validatedTargets[call.url])
    \/ call.entry = "handler" /\ IsOk(validatedRequests[call.request])

\* C29: once the target has passed validation, discoverFeeds with the real
\* prober always ends in success: the list is the merged list, or the
\* probe results alone when the HTML branch failed, and no error of the
\* HTML fetch reaches the caller; the handler answers 200, with an empty
\* list when nothing was found, even when the site is unreachable or
\* answers 404.
C29_ValidatedCallSucceeds ==
    (ValidationPassed /\ result # <<>>) =>
        /\ IsOk(result[1])
        /\ HtmlFailed => \A r \in 1..Len(result[1].value) :
                             result[1].value[r].discoveryMethod = "common-path"
        /\ response # <<>> =>
              /\ response[1].status = 200
              /\ response[1].body.success
              /\ response[1].body.feeds = result[1].value

\* The site does not answer the GET and has no feed at any candidate path:
\* the handler still answers 200, with an empty list.
C29_Witness ==
    /\ call.entry = "handler"
    /\ ValidationPassed
    /\ site.get = [k |-> "error", message |-> "connection refused"]
    /\ site.head = NoHeads
    /\ pc = "responded"
    /\ HtmlFailed
    /\ html.result.error.type = "NETWORK_ERROR"
    /\ response # <<>>
    /\ response[1].status = 200
    /\ response[1].body.feeds = <<>>
    /\ response[1].body.totalFound = 0


\* Scheme, host and port of a URL text.
OriginOfParsed(u) == IF u.ok THEN <<u.scheme, u.host, u.port>> ELSE <<>>

RequestUrls == BaseUrls \cup {item.url : item \in CandidateItems}

originOf == [u \in RequestUrls |-> OriginOfParsed(NewURL(u))]

\* The URLs the pages of the model link to on other hosts.
ForeignFeedUrls == {"https://b.io/atom", "http://10.0.0.1/feed"}

=============================================================================
